---- MODULE Spec2Model ----
(***************************************************************************)
(* binbreak: the round/session state machine of the binary-number quiz     *)
(* (src/src/binary_numbers.rs).                                            *)
(*                                                                         *)
(* Time is counted in milliseconds: the f64 seconds of the source are      *)
(* 1000 of these units (8.0 s = 8000, the 0.5 s streak penalty = 500).     *)
(* Option<T> is a sequence of length 0 (None) or 1 (Some(x)).              *)
(* The rng is the only source of nondeterminism of a puzzle: its outcome   *)
(* is the sequence of accepted draws and the permutation of the shuffle.   *)
(***************************************************************************)
EXTENDS Integers, Sequences, FiniteSets, TLC

\* game: the BinaryNumbersGame of a session; file: binbreak_highscores.txt;
\* puzzle: a BinaryNumbersPuzzle built on its own; streak_arg: the streak it was built for;
\* scores: a HighScores store on its own, saved and loaded;
\* conv: a call of Bits::raw_to_signed; anim: the ProceduralAnimationWidget of the
\* title; now: the clock (Instant::now(), ms); cell: a cell of the title as rendered;
\* app: the AppState of run_app and the position of its loop
VARIABLES game, file, puzzle, streak_arg, scores, conv, anim, now, cell, app

vars == <<game, file, puzzle, streak_arg, scores, conv, anim, now, cell, app>>

(***************************************************************************)
(* Bounds of the model.                                                    *)
(***************************************************************************)
\* the rng draws raw values below suggestion_count + RawSpare (and below 2^bits)
RawSpare == 0
\* rounds played in one game before no further puzzle is started: ShortRounds in
\* every game, MaxRounds while the streak is unbroken (streak = rounds)
ShortRounds == 3
MaxRounds == 5
\* max_lives handed to new_with_max_lives ranges over 0..MaxMaxLives
MaxMaxLives == 4
\* streak handed to a stand-alone BinaryNumbersPuzzle::new ranges over 0..MaxStreak
MaxStreak == 32

\* frame deltas (ms): none, a part of a time budget, more than every time budget
Deltas == {0, 4500, 20001}
\* the time up to which the clock of an animation widget is followed, in ms
MaxNow == 9000

\* the cycles of the title animation that are rendered: 0..MaxCycle
MaxCycle == 3

\* the iterations of the loop of run_app that are followed
MaxFrames == 8

\* the iterations of the loop of run_app during which keys arrive in IdleSpec
IdleFrames == 8

\* the best scores an earlier session may have stored in the high-score file
PriorScores == {10}

(***************************************************************************)
(* Helpers for Option, Vec and f64::max / u32::min.                        *)
(***************************************************************************)
None == << >>
Some(x) == <<x>>
IsSome(o) == Len(o) = 1
Unwrap(o) == o[1]

Range(s) == {s[i] : i \in 1..Len(s)}
Max(a, b) == IF a >= b THEN a ELSE b
Min(a, b) == IF a <= b THEN a ELSE b
RECURSIVE Pow2(_)
Pow2(n) == IF n = 0 THEN 1 ELSE 2 * Pow2(n - 1)

\* position(|&x| x == v): index of the first element equal to v (1-based), 0 if absent
Position(s, v) ==
    IF v \in Range(s) THEN CHOOSE i \in 1..Len(s) : s[i] = v /\ \A j \in 1..(i - 1) : s[j] # v
    ELSE 0

(***************************************************************************)
(* enum Bits and its catalogue.                                            *)
(***************************************************************************)
Bits == {"Four", "FourTwosComplement", "FourShift4", "FourShift8", "FourShift12",
         "Eight", "Twelve", "Sixteen"}

to_int(bits) ==
    CASE bits \in {"Four", "FourShift4", "FourShift8", "FourShift12", "FourTwosComplement"} -> 4
      [] bits = "Eight" -> 8
      [] bits = "Twelve" -> 12
      [] bits = "Sixteen" -> 16

scale_factor(bits) ==
    CASE bits = "Four" -> 1
      [] bits = "FourTwosComplement" -> 1
      [] bits = "FourShift4" -> 16
      [] bits = "FourShift8" -> 256
      [] bits = "FourShift12" -> 4096
      [] bits = "Eight" -> 1
      [] bits = "Twelve" -> 1
      [] bits = "Sixteen" -> 1

high_score_key(bits) ==
    CASE bits = "Four" -> 4
      [] bits = "FourTwosComplement" -> 42
      [] bits = "FourShift4" -> 44
      [] bits = "FourShift8" -> 48
      [] bits = "FourShift12" -> 412
      [] bits = "Eight" -> 8
      [] bits = "Twelve" -> 12
      [] bits = "Sixteen" -> 16

suggestion_count(bits) ==
    CASE bits \in {"Four", "FourShift4", "FourShift8", "FourShift12", "FourTwosComplement"} -> 3
      [] bits = "Eight" -> 4
      [] bits = "Twelve" -> 5
      [] bits = "Sixteen" -> 6

is_twos_complement(bits) == bits = "FourTwosComplement"

\* the match on bits inside BinaryNumbersPuzzle::new, in ms
base_time(bits) ==
    CASE bits \in {"Four", "FourShift4", "FourShift8", "FourShift12", "FourTwosComplement"} -> 8000
      [] bits = "Eight" -> 12000
      [] bits = "Twelve" -> 16000
      [] bits = "Sixteen" -> 20000

\* raw as i32: a u32 above i32::MAX wraps around
AsI32(raw) == IF raw <= 2147483647 THEN raw ELSE (raw - 2147483647) - 2147483647 - 2

\* the sign test of the two's complement conversion missing the pattern 1000
raw_to_signedAboveEight(bits, raw) ==
    IF bits = "FourTwosComplement"
    THEN IF raw > 8 THEN AsI32(raw) - 16 ELSE AsI32(raw)
    ELSE AsI32(raw)

\* Bits::raw_to_signed
raw_to_signed(bits, raw) ==
    IF bits = "FourTwosComplement"
    THEN IF raw >= 8 THEN AsI32(raw) - 16 ELSE AsI32(raw)
    ELSE AsI32(raw)

(***************************************************************************)
(* BinaryNumbersPuzzle::new.                                               *)
(***************************************************************************)
\* rng.random_range(0..2^bits): the values the rng may return, cut by RawSpare
RawRange(bits) == 0..(Min(Pow2(to_int(bits)), suggestion_count(bits) + RawSpare) - 1)

\* the value pushed for a raw draw: the raw pattern (two's complement) or raw * scale
DrawnNumber(bits, raw) == IF is_twos_complement(bits) THEN raw ELSE raw * scale_factor(bits)

\* every draw kept, duplicates included
AcceptsAnyDraw(acc, num) == TRUE

\* if !suggestions.contains(&num): the draw is kept, otherwise redrawn
AcceptsDraw(acc, num) == num \notin Range(acc)

\* the two while loops: every vector the rejection sampling can end with, from acc
RECURSIVE DrawLoop(_, _)
DrawLoop(bits, acc) ==
    IF Len(acc) >= suggestion_count(bits) THEN {acc}
    ELSE UNION {DrawLoop(bits, Append(acc, DrawnNumber(bits, raw))) :
                    raw \in {r \in RawRange(bits) : AcceptsDraw(acc, DrawnNumber(bits, r))}}

\* suggestions.shuffle(&mut rng): every reordering of s
Shuffles(s) == {[i \in 1..Len(s) |-> s[f[i]]] : f \in Permutations(1..Len(s))}

\* the budget without its floor
TimeTotalNoFloor(bits, streak) == base_time(bits) - streak * 500

\* let time_total = (base_time - penalty).max(5.0)
TimeTotal(bits, streak) == Max(base_time(bits) - streak * 500, 5000)

\* a puzzle created with no suggestion selected
BinaryNumbersPuzzle_newUnselected(bits, streak, drawn, shuffled) ==
    [bits |-> bits,
     current_number |-> drawn[1],
     raw_current_number |-> IF is_twos_complement(bits) THEN drawn[1]
                            ELSE drawn[1] \div scale_factor(bits),
     suggestions |-> shuffled,
     selected_suggestion |-> None,
     time_total |-> TimeTotal(bits, streak),
     time_left |-> TimeTotal(bits, streak),
     guess_result |-> None,
     last_points_awarded |-> 0,
     stats_snapshot |-> None,
     skip_first_dt |-> TRUE]

\* a puzzle created with its first delta not to be skipped
BinaryNumbersPuzzle_newNoSkip(bits, streak, drawn, shuffled) ==
    [bits |-> bits,
     current_number |-> drawn[1],
     raw_current_number |-> IF is_twos_complement(bits) THEN drawn[1]
                            ELSE drawn[1] \div scale_factor(bits),
     suggestions |-> shuffled,
     selected_suggestion |-> Some(shuffled[1]),
     time_total |-> TimeTotal(bits, streak),
     time_left |-> TimeTotal(bits, streak),
     guess_result |-> None,
     last_points_awarded |-> 0,
     stats_snapshot |-> None,
     skip_first_dt |-> FALSE]

\* drawn: the suggestions as the loops left them; shuffled: the same after shuffle
BinaryNumbersPuzzle_new(bits, streak, drawn, shuffled) ==
    [bits |-> bits,
     current_number |-> drawn[1],
     raw_current_number |-> IF is_twos_complement(bits) THEN drawn[1]
                            ELSE drawn[1] \div scale_factor(bits),
     suggestions |-> shuffled,
     selected_suggestion |-> Some(shuffled[1]),
     time_total |-> TimeTotal(bits, streak),
     time_left |-> TimeTotal(bits, streak),
     guess_result |-> None,
     last_points_awarded |-> 0,
     stats_snapshot |-> None,
     skip_first_dt |-> TRUE]

is_correct_guess(p, guess) == guess = p.current_number

\* run without the first-delta skip
Puzzle_runNoSkip(p, dt) ==
    IF IsSome(p.guess_result) THEN p
    ELSE LET left == Max(p.time_left - dt, 0)
         IN  [p EXCEPT !.skip_first_dt = FALSE,
                       !.time_left = left,
                       !.guess_result = IF left <= 0 THEN Some("Timeout") ELSE @]

\* run without the early return on a set guess_result
Puzzle_runKeepsCounting(p, dt) ==
    IF p.skip_first_dt THEN [p EXCEPT !.skip_first_dt = FALSE]
    ELSE LET left == Max(p.time_left - dt, 0)
         IN  [p EXCEPT !.time_left = left,
                       !.guess_result = IF left <= 0 THEN Some("Timeout") ELSE @]

\* BinaryNumbersPuzzle::run
Puzzle_run(p, dt) ==
    IF IsSome(p.guess_result) THEN p
    ELSE IF p.skip_first_dt THEN [p EXCEPT !.skip_first_dt = FALSE]
    ELSE LET left == Max(p.time_left - dt, 0)
         IN  [p EXCEPT !.time_left = left,
                       !.guess_result = IF left <= 0 THEN Some("Timeout") ELSE @]

(***************************************************************************)
(* struct HighScores and its file binbreak_highscores.txt.                 *)
(* The file is [exists, lines]; a line is its text, a sequence of          *)
(* characters, without the line break. The map is a function from the keys *)
(* present to their scores. Keys and scores stay below 2^31.               *)
(***************************************************************************)
HighScores_empty == << >>

HighScores_get(hs, bits_key) == IF bits_key \in DOMAIN hs THEN hs[bits_key] ELSE 0

HighScores_update(hs, bits_key, score) ==
    [k \in (DOMAIN hs) \cup {bits_key} |-> IF k = bits_key THEN score ELSE hs[k]]

DecimalDigits == <<"0", "1", "2", "3", "4", "5", "6", "7", "8", "9">>

\* the digits of n with the least significant one first
RECURSIVE FormatU32Reversed(_)
FormatU32Reversed(n) ==
    IF n < 10 THEN <<DecimalDigits[n + 1]>>
    ELSE <<DecimalDigits[(n % 10) + 1]>> \o FormatU32Reversed(n \div 10)

\* Display of a u32: its decimal digits
RECURSIVE FormatU32(_)
FormatU32(n) ==
    IF n < 10 THEN <<DecimalDigits[n + 1]>>
    ELSE FormatU32(n \div 10) \o <<DecimalDigits[(n % 10) + 1]>>

\* writeln!(data, "{key}={val}"), the line without its line break
FormatLine(key, val) == FormatU32(key) \o <<"=">> \o FormatU32(val)

\* str::split_once('='): the text before and after the first '=', None without one
SplitOnce(line) ==
    LET at == Position(line, "=")
    IN  IF at = 0 THEN None
        ELSE Some(<<SubSeq(line, 1, at - 1), SubSeq(line, at + 1, Len(line))>>)

WhiteSpace == {" ", "\t"}

\* str::trim: the text without its leading and trailing white space
RECURSIVE Trim(_)
Trim(text) ==
    IF text = << >> THEN text
    ELSE IF Head(text) \in WhiteSpace THEN Trim(Tail(text))
    ELSE IF text[Len(text)] \in WhiteSpace THEN Trim(SubSeq(text, 1, Len(text) - 1))
    ELSE text

\* the value of a text of decimal digits, following acc
RECURSIVE DigitsValue(_, _)
DigitsValue(text, acc) ==
    IF text = << >> THEN acc
    ELSE DigitsValue(Tail(text), acc * 10 + (Position(DecimalDigits, Head(text)) - 1))

\* str::parse::<u32>: an optional '+', then one or more decimal digits
ParseU32(text) ==
    LET digits == IF text # << >> /\ Head(text) = "+" THEN Tail(text) ELSE text
    IN  IF digits # << >> /\ \A i \in 1..Len(digits) : digits[i] \in Range(DecimalDigits)
        THEN Some(DigitsValue(digits, 0))
        ELSE None

\* the if-let chain of load: Some(<<bits, score>>) if the line is inserted
ParseLine(line) ==
    LET kv == SplitOnce(line)
    IN  IF ~IsSome(kv) THEN None
        ELSE LET bits == ParseU32(Trim(Unwrap(kv)[1]))
                 score == ParseU32(Trim(Unwrap(kv)[2]))
             IN  IF IsSome(bits) /\ IsSome(score)
                 THEN Some(<<Unwrap(bits), Unwrap(score)>>)
                 ELSE None

\* a load that gives up at the first line it cannot parse
RECURSIVE LoadLinesUntilMalformed(_, _)
LoadLinesUntilMalformed(lines, hs) ==
    IF lines = << >> THEN hs
    ELSE LET parsed == ParseLine(Head(lines))
         IN  IF IsSome(parsed)
             THEN LoadLinesUntilMalformed(Tail(lines),
                      HighScores_update(hs, Unwrap(parsed)[1], Unwrap(parsed)[2]))
             ELSE hs

\* the for loop over contents.lines(): later lines overwrite earlier ones
RECURSIVE LoadLines(_, _)
LoadLines(lines, hs) ==
    IF lines = << >> THEN hs
    ELSE LET parsed == ParseLine(Head(lines))
         IN  LoadLines(Tail(lines),
                       IF IsSome(parsed)
                       THEN HighScores_update(hs, Unwrap(parsed)[1], Unwrap(parsed)[2])
                       ELSE hs)

\* readable: File::open and read_to_string both succeed
HighScores_load(f, readable) ==
    IF f.exists /\ readable THEN LoadLines(f.lines, HighScores_empty) ELSE HighScores_empty

\* the key order of the for loop in save
SaveKeys == <<4, 42, 44, 48, 412, 8, 12, 16>>

\* io = "ok": the file holds the eight lines; "create_failed": File::create failed,
\* the file is as before; "write_failed": created (truncated), nothing written
IoOutcomes == {"ok", "create_failed", "write_failed"}

HighScores_save(hs, f, io) ==
    CASE io = "ok" ->
            [exists |-> TRUE,
             lines |-> [i \in 1..Len(SaveKeys) |->
                           FormatLine(SaveKeys[i], HighScores_get(hs, SaveKeys[i]))]]
      [] io = "create_failed" -> f
      [] io = "write_failed" -> [exists |-> TRUE, lines |-> << >>]

(***************************************************************************)
(* struct BinaryNumbersGame. An operation takes the game g and the file f  *)
(* and yields both as they are when it returns.                            *)
(***************************************************************************)
W(g, f) == [game |-> g, file |-> f]

\* "♥" repeated lives.min(max_lives) times, then "·" for the lives lost
lives_hearts(g) ==
    [i \in 1..(Min(g.lives, g.max_lives) + Max(g.max_lives - g.lives, 0)) |->
        IF i <= Min(g.lives, g.max_lives) THEN "heart" ELSE "dot"]

refresh_stats_snapshot(g) ==
    [g EXCEPT !.puzzle.stats_snapshot =
        Some([score |-> g.score, streak |-> g.streak, max_streak |-> g.max_streak,
              rounds |-> g.rounds, lives |-> g.lives, bits |-> g.bits,
              hearts |-> lives_hearts(g), game_state |-> g.game_state,
              prev_high_score |-> g.prev_high_score_for_display,
              new_high_score |-> g.new_high_score_reached])]

\* three lives whatever max_lives is
StartingLivesThree(max_lives) == 3

\* lives: max_lives.min(3), in new_with_max_lives and in reset_game_state
StartingLives(max_lives) == Min(max_lives, 3)

new_with_max_lives(bits, max_lives, f, readable, drawn, shuffled) ==
    LET hs == HighScores_load(f, readable)
    IN  refresh_stats_snapshot(
            [bits |-> bits,
             puzzle |-> BinaryNumbersPuzzle_new(bits, 0, drawn, shuffled),
             exit_intended |-> FALSE,
             score |-> 0,
             streak |-> 0,
             rounds |-> 0,
             puzzle_resolved |-> FALSE,
             lives |-> StartingLives(max_lives),
             max_lives |-> max_lives,
             game_state |-> "Active",
             max_streak |-> 0,
             high_scores |-> hs,
             prev_high_score_for_display |-> HighScores_get(hs, high_score_key(bits)),
             new_high_score_reached |-> FALSE])

\* BinaryNumbersGame::new: three lives
BinaryNumbersGame_new(bits, f, readable, drawn, shuffled) ==
    new_with_max_lives(bits, 3, f, readable, drawn, shuffled)

\* the bonus taken from the streak after its increment
RoundCorrectBonusOffByOne(g) ==
    LET streak == g.streak + 1
        points == 10 + streak * 2
    IN  [g EXCEPT !.streak = streak,
                  !.max_streak = IF streak > @ THEN streak ELSE @,
                  !.score = @ + points,
                  !.puzzle.last_points_awarded = points,
                  !.lives = IF streak % 5 = 0 /\ @ < g.max_lives THEN @ + 1 ELSE @]

\* the extra life granted without the test lives < max_lives
RoundCorrectUncappedLife(g) ==
    LET streak == g.streak + 1
        points == 10 + (streak - 1) * 2
    IN  [g EXCEPT !.streak = streak,
                  !.max_streak = IF streak > @ THEN streak ELSE @,
                  !.score = @ + points,
                  !.puzzle.last_points_awarded = points,
                  !.lives = IF streak % 5 = 0 THEN @ + 1 ELSE @]

\* finalize_round, the arm GuessResult::Correct
RoundCorrect(g) ==
    LET streak == g.streak + 1
        points == 10 + (streak - 1) * 2
    IN  [g EXCEPT !.streak = streak,
                  !.max_streak = IF streak > @ THEN streak ELSE @,
                  !.score = @ + points,
                  !.puzzle.last_points_awarded = points,
                  !.lives = IF streak % 5 = 0 /\ @ < g.max_lives THEN @ + 1 ELSE @]

\* a miss that keeps the streak
RoundMissedKeepsStreak(g) ==
    [g EXCEPT !.puzzle.last_points_awarded = 0,
              !.lives = IF @ > 0 THEN @ - 1 ELSE @]

\* finalize_round, the arm GuessResult::Incorrect | GuessResult::Timeout
RoundMissed(g) ==
    [g EXCEPT !.streak = 0,
              !.puzzle.last_points_awarded = 0,
              !.lives = IF @ > 0 THEN @ - 1 ELSE @]

\* the store overwritten with the score of every round
HighScoreUpdateUnconditional(g, f, io) ==
    LET bits_key == high_score_key(g.bits)
        prev == HighScores_get(g.high_scores, bits_key)
        hs == HighScores_update(g.high_scores, bits_key, g.score)
    IN  W([g EXCEPT !.prev_high_score_for_display =
                        IF ~g.new_high_score_reached THEN prev ELSE @,
                    !.high_scores = hs,
                    !.new_high_score_reached = TRUE],
          HighScores_save(hs, f, io))

\* the store updated in memory and left unsaved
HighScoreUpdateUnsaved(g, f, io) ==
    LET bits_key == high_score_key(g.bits)
        prev == HighScores_get(g.high_scores, bits_key)
    IN  IF g.score > prev
        THEN W([g EXCEPT !.prev_high_score_for_display =
                             IF ~g.new_high_score_reached THEN prev ELSE @,
                         !.high_scores = HighScores_update(g.high_scores, bits_key, g.score),
                         !.new_high_score_reached = TRUE],
               f)
        ELSE W(g, f)

\* the store also updated, saved and flagged by a score equal to the stored one
HighScoreUpdateOnTie(g, f, io) ==
    LET bits_key == high_score_key(g.bits)
        prev == HighScores_get(g.high_scores, bits_key)
    IN  IF g.score >= prev
        THEN LET hs == HighScores_update(g.high_scores, bits_key, g.score)
             IN  W([g EXCEPT !.prev_high_score_for_display =
                                 IF ~g.new_high_score_reached THEN prev ELSE @,
                             !.high_scores = hs,
                             !.new_high_score_reached = TRUE],
                   HighScores_save(hs, f, io))
        ELSE W(g, f)

\* the display baseline rewritten by every update of the store
HighScoreUpdateRewritesBaseline(g, f, io) ==
    LET bits_key == high_score_key(g.bits)
        prev == HighScores_get(g.high_scores, bits_key)
    IN  IF g.score > prev
        THEN LET hs == HighScores_update(g.high_scores, bits_key, g.score)
             IN  W([g EXCEPT !.prev_high_score_for_display = prev,
                             !.high_scores = hs,
                             !.new_high_score_reached = TRUE],
                   HighScores_save(hs, f, io))
        ELSE W(g, f)

\* finalize_round, "high score update"
HighScoreUpdate(g, f, io) ==
    LET bits_key == high_score_key(g.bits)
        prev == HighScores_get(g.high_scores, bits_key)
    IN  IF g.score > prev
        THEN LET hs == HighScores_update(g.high_scores, bits_key, g.score)
             IN  W([g EXCEPT !.prev_high_score_for_display =
                                 IF ~g.new_high_score_reached THEN prev ELSE @,
                             !.high_scores = hs,
                             !.new_high_score_reached = TRUE],
                   HighScores_save(hs, f, io))
        ELSE W(g, f)

\* the game ended at the last life instead of after it
StateAfterRoundAtLastLife(g) ==
    [g EXCEPT !.game_state = IF g.lives <= 1 THEN "PendingGameOver" ELSE "Result",
              !.puzzle_resolved = TRUE]

\* the state set after the round without the resolved flag
StateAfterRoundLeavesUnresolved(g) ==
    [g EXCEPT !.game_state = IF g.lives = 0 THEN "PendingGameOver" ELSE "Result"]

\* the summary shown at once when the lives are used up
StateAfterRoundNoPending(g) ==
    [g EXCEPT !.game_state = IF g.lives = 0 THEN "GameOver" ELSE "Result",
              !.puzzle_resolved = TRUE]

\* finalize_round, "set state after round resolution"
StateAfterRound(g) ==
    [g EXCEPT !.game_state = IF g.lives = 0 THEN "PendingGameOver" ELSE "Result",
              !.puzzle_resolved = TRUE]

\* the error of save returned with ?: the round left without its state set
finalize_roundReturnsSaveError(g, f, io) ==
    IF IsSome(g.puzzle.guess_result)
    THEN LET result == Unwrap(g.puzzle.guess_result)
             counted == [g EXCEPT !.rounds = @ + 1]
             scored == IF result = "Correct" THEN RoundCorrect(counted) ELSE RoundMissed(counted)
             w == HighScoreUpdate(scored, f, io)
         IN  IF io # "ok" /\ w.game.high_scores # scored.high_scores
             THEN w
             ELSE W(StateAfterRound(w.game), w.file)
    ELSE W(g, f)

finalize_round(g, f, io) ==
    IF IsSome(g.puzzle.guess_result)
    THEN LET result == Unwrap(g.puzzle.guess_result)
             counted == [g EXCEPT !.rounds = @ + 1]
             scored == IF result = "Correct" THEN RoundCorrect(counted) ELSE RoundMissed(counted)
             w == HighScoreUpdate(scored, f, io)
         IN  W(StateAfterRound(w.game), w.file)
    ELSE W(g, f)

\* the test of run without the resolved flag
RunFinalizesUnguarded(g) == IsSome(g.puzzle.guess_result)

\* run: if self.puzzle.guess_result.is_some() && !self.puzzle_resolved
RunFinalizes(g) == IsSome(g.puzzle.guess_result) /\ ~g.puzzle_resolved

\* MainScreenWidget::run
Game_run(g, f, dt, io) ==
    LET g0 == refresh_stats_snapshot(g)
    IN  IF g0.game_state = "GameOver" THEN W(g0, f)
        ELSE LET g1 == [g0 EXCEPT !.puzzle = Puzzle_run(@, dt)]
                 w == IF RunFinalizes(g1) THEN finalize_round(g1, f, io) ELSE W(g1, f)
             IN  W(refresh_stats_snapshot(w.game), w.file)

(***************************************************************************)
(* keybinds.rs: a key event is its KeyCode.                                *)
(***************************************************************************)
KeyCodes == {"Up", "k", "Down", "j", "Left", "h", "Right", "l", "Enter", "Esc", "q", "Q",
             "s", "S", "x"}

\* the keys pressed in a session: each intent, some by two of its keys
PressedKeys == {"Up", "Left", "Right", "l", "Enter", "Esc", "Q", "s", "S"}

is_up(key) == key \in {"Up", "k"}
is_down(key) == key \in {"Down", "j"}
is_left(key) == key \in {"Left", "h"}
is_right(key) == key \in {"Right", "l"}
is_select(key) == key = "Enter"
is_exit(key) == key \in {"Esc", "q", "Q"}
\* KeyEvent { code: KeyCode::Char('s' | 'S'), .. } in handle_no_result_yet
is_skip(key) == key \in {"s", "S"}

(***************************************************************************)
(* Input handling of BinaryNumbersGame.                                    *)
(***************************************************************************)
\* a reset that keeps the display baseline of the game that ended
reset_game_stateKeepsBaseline(g, drawn, shuffled) ==
    refresh_stats_snapshot(
        [g EXCEPT !.score = 0,
                  !.streak = 0,
                  !.rounds = 0,
                  !.lives = StartingLives(g.max_lives),
                  !.game_state = "Active",
                  !.max_streak = 0,
                  !.new_high_score_reached = FALSE,
                  !.puzzle = BinaryNumbersPuzzle_new(g.bits, 0, drawn, shuffled),
                  !.puzzle_resolved = FALSE])

\* a reset that keeps the lives of the game that ended
reset_game_stateKeepsLives(g, drawn, shuffled) ==
    refresh_stats_snapshot(
        [g EXCEPT !.score = 0,
                  !.streak = 0,
                  !.rounds = 0,
                  !.game_state = "Active",
                  !.max_streak = 0,
                  !.prev_high_score_for_display =
                      HighScores_get(g.high_scores, high_score_key(g.bits)),
                  !.new_high_score_reached = FALSE,
                  !.puzzle = BinaryNumbersPuzzle_new(g.bits, 0, drawn, shuffled),
                  !.puzzle_resolved = FALSE])

reset_game_state(g, drawn, shuffled) ==
    refresh_stats_snapshot(
        [g EXCEPT !.score = 0,
                  !.streak = 0,
                  !.rounds = 0,
                  !.lives = StartingLives(g.max_lives),
                  !.game_state = "Active",
                  !.max_streak = 0,
                  !.prev_high_score_for_display =
                      HighScores_get(g.high_scores, high_score_key(g.bits)),
                  !.new_high_score_reached = FALSE,
                  !.puzzle = BinaryNumbersPuzzle_new(g.bits, 0, drawn, shuffled),
                  !.puzzle_resolved = FALSE])

handle_game_over_input(g, key, drawn, shuffled) ==
    CASE is_select(key) -> reset_game_state(g, drawn, shuffled)
      [] is_exit(key) -> [g EXCEPT !.exit_intended = TRUE]
      [] OTHER -> g

\* the next suggestion without the wrap at the last one
SelectNextNoWrap(p) ==
    IF IsSome(p.selected_suggestion)
    THEN LET index == Position(p.suggestions, Unwrap(p.selected_suggestion))
         IN  IF index # 0
             THEN [p EXCEPT !.selected_suggestion =
                                Some(p.suggestions[Min(index + 1, Len(p.suggestions))])]
             ELSE p
    ELSE [p EXCEPT !.selected_suggestion = Some(p.suggestions[1])]

\* the arm is_right: select the next suggestion
SelectNext(p) ==
    IF IsSome(p.selected_suggestion)
    THEN LET index == Position(p.suggestions, Unwrap(p.selected_suggestion))
         IN  IF index # 0
             THEN [p EXCEPT !.selected_suggestion =
                                Some(p.suggestions[(index % Len(p.suggestions)) + 1])]
             ELSE p
    ELSE [p EXCEPT !.selected_suggestion = Some(p.suggestions[1])]

\* the arm is_left: select the previous suggestion
SelectPrevious(p) ==
    IF IsSome(p.selected_suggestion)
    THEN LET index == Position(p.suggestions, Unwrap(p.selected_suggestion))
         IN  IF index # 0
             THEN [p EXCEPT !.selected_suggestion =
                                Some(p.suggestions[IF index = 1 THEN Len(p.suggestions)
                                                   ELSE index - 1])]
             ELSE p
    ELSE p

\* the guess judged by its place: the first suggestion taken for the target
GuessOfFirst(p, selected) == IF selected = p.suggestions[1] THEN "Correct" ELSE "Incorrect"

\* the arm is_select: the guess is checked against the target
GuessOf(p, selected) == IF is_correct_guess(p, selected) THEN "Correct" ELSE "Incorrect"

\* a skip counted as a wrong answer
SkipAsIncorrect(g) == [g EXCEPT !.puzzle.guess_result = Some("Incorrect")]

\* the arm 's' | 'S': self.puzzle.guess_result = Some(GuessResult::Timeout)
Skip(g) == [g EXCEPT !.puzzle.guess_result = Some("Timeout")]

handle_no_result_yet(g, f, key, io) ==
    CASE is_right(key) -> W([g EXCEPT !.puzzle = SelectNext(@)], f)
      [] is_left(key) -> W([g EXCEPT !.puzzle = SelectPrevious(@)], f)
      [] is_select(key) ->
            IF IsSome(g.puzzle.selected_suggestion)
            THEN finalize_round(
                     [g EXCEPT !.puzzle.guess_result =
                                   Some(GuessOf(g.puzzle, Unwrap(g.puzzle.selected_suggestion)))],
                     f, io)
            ELSE W(g, f)
      [] is_skip(key) ->
            finalize_round(Skip(g), f, io)
      [] OTHER -> W(g, f)

\* the next puzzle started with the resolved flag left set
ConfirmResultKeepsResolved(g, drawn, shuffled) ==
    CASE g.game_state = "PendingGameOver" -> [g EXCEPT !.game_state = "GameOver"]
      [] g.game_state = "Result" ->
            [g EXCEPT !.puzzle = BinaryNumbersPuzzle_new(g.bits, g.streak, drawn, shuffled),
                      !.game_state = "Active"]
      [] OTHER -> g

\* Enter in PendingGameOver going back to the result instead of the summary
ConfirmResultReopensRound(g, drawn, shuffled) ==
    CASE g.game_state = "PendingGameOver" -> [g EXCEPT !.game_state = "Result"]
      [] g.game_state = "Result" ->
            [g EXCEPT !.puzzle = BinaryNumbersPuzzle_new(g.bits, g.streak, drawn, shuffled),
                      !.puzzle_resolved = FALSE,
                      !.game_state = "Active"]
      [] OTHER -> g

\* the next puzzle generated at streak 0
ConfirmResultAtStreakZero(g, drawn, shuffled) ==
    CASE g.game_state = "PendingGameOver" -> [g EXCEPT !.game_state = "GameOver"]
      [] g.game_state = "Result" ->
            [g EXCEPT !.puzzle = BinaryNumbersPuzzle_new(g.bits, 0, drawn, shuffled),
                      !.puzzle_resolved = FALSE,
                      !.game_state = "Active"]
      [] OTHER -> g

\* the arm is_select of handle_result_available, by game_state
ConfirmResult(g, drawn, shuffled) ==
    CASE g.game_state = "PendingGameOver" -> [g EXCEPT !.game_state = "GameOver"]
      [] g.game_state = "Result" ->
            [g EXCEPT !.puzzle = BinaryNumbersPuzzle_new(g.bits, g.streak, drawn, shuffled),
                      !.puzzle_resolved = FALSE,
                      !.game_state = "Active"]
      [] OTHER -> g

handle_result_available(g, key, drawn, shuffled) ==
    CASE is_select(key) -> ConfirmResult(g, drawn, shuffled)
      [] is_exit(key) -> [g EXCEPT !.exit_intended = TRUE]
      [] OTHER -> g

\* every key of a game that is not over handled as if the puzzle had no outcome
handle_game_inputIgnoresOutcome(g, f, key, io, drawn, shuffled) ==
    IF is_exit(key) THEN W([g EXCEPT !.exit_intended = TRUE], f)
    ELSE IF g.game_state = "GameOver" THEN W(handle_game_over_input(g, key, drawn, shuffled), f)
    ELSE IF is_select(key) /\ IsSome(g.puzzle.guess_result)
         THEN W(handle_result_available(g, key, drawn, shuffled), f)
    ELSE handle_no_result_yet(g, f, key, io)

\* the exit key left to the handler of the state
handle_game_inputExitLast(g, f, key, io, drawn, shuffled) ==
    IF g.game_state = "GameOver" THEN W(handle_game_over_input(g, key, drawn, shuffled), f)
    ELSE IF ~IsSome(g.puzzle.guess_result) THEN handle_no_result_yet(g, f, key, io)
    ELSE W(handle_result_available(g, key, drawn, shuffled), f)

\* drawn, shuffled: what the rng yields if the input creates a puzzle
handle_game_input(g, f, key, io, drawn, shuffled) ==
    IF is_exit(key) THEN W([g EXCEPT !.exit_intended = TRUE], f)
    ELSE IF g.game_state = "GameOver" THEN W(handle_game_over_input(g, key, drawn, shuffled), f)
    ELSE IF ~IsSome(g.puzzle.guess_result) THEN handle_no_result_yet(g, f, key, io)
    ELSE W(handle_result_available(g, key, drawn, shuffled), f)

(***************************************************************************)
(* The session: a game created for one mode, then ticks and key presses.   *)
(***************************************************************************)
NoPuzzle == [bits |-> "none"]
NoGame == [game_state |-> "none"]
NoFile == [exists |-> FALSE, lines |-> << >>]

\* the modes a session is played in
SessionModes == {"FourShift4"}

\* the file an earlier session left: none, or the eight lines with the mode's best
InitialFiles(bits) ==
    {NoFile} \cup
    {HighScores_save(HighScores_update(HighScores_empty, high_score_key(bits), prior),
                     NoFile, "ok") : prior \in PriorScores}

\* The rng outcomes explored in a session: the draws returning raw 0, 1, 2, ... in
\* turn (so the target is the smallest candidate) and the shuffle a rotation, which
\* puts the target at every position. PuzzleSpec explores every draw and shuffle.
SessionDraws(bits) ==
    {d \in DrawLoop(bits, << >>) : \A i \in 1..Len(d) : d[i] = DrawnNumber(bits, i - 1)}
SessionShuffles(s) ==
    {[i \in 1..Len(s) |-> s[((i + k - 1) % Len(s)) + 1]] : k \in 0..(Len(s) - 1)}

\* the variables of the other specifications, at rest
AtRest(v) == v = [at |-> "rest"]

Init ==
    /\ puzzle = NoPuzzle
    /\ streak_arg = 0
    /\ AtRest(scores) /\ AtRest(conv) /\ AtRest(anim) /\ now = 0 /\ AtRest(cell) /\ AtRest(app)
    /\ \E bits \in SessionModes, max_lives \in 0..MaxMaxLives :
         \E f \in InitialFiles(bits), drawn \in SessionDraws(bits) :
           \E shuffled \in SessionShuffles(drawn) :
             /\ file = f
             /\ game = new_with_max_lives(bits, max_lives, f, TRUE, drawn, shuffled)

\* one frame of the driver: game.run(dt), the file system answering io
RunWith(dt, io) ==
    /\ LET w == Game_run(game, file, dt, io)
       IN  game' = w.game /\ file' = w.file
    /\ UNCHANGED <<puzzle, streak_arg, scores, conv, anim, now, cell, app>>

\* a key that creates no puzzle: game.handle_input(key)
InputWith(key, io) ==
    /\ LET w == handle_game_input(game, file, key, io, << >>, << >>)
       IN  game' = w.game /\ file' = w.file
    /\ UNCHANGED <<puzzle, streak_arg, scores, conv, anim, now, cell, app>>

\* Enter while a puzzle is to be created (next round, restart): the rng is drawn
InputNewPuzzle(key) ==
    /\ \E drawn \in SessionDraws(game.bits) :
         \E shuffled \in SessionShuffles(drawn) :
           LET w == handle_game_input(game, file, key, "ok", drawn, shuffled)
           IN  game' = w.game /\ file' = w.file
    /\ UNCHANGED <<puzzle, streak_arg, scores, conv, anim, now, cell, app>>

CreatesPuzzle(key) ==
    /\ is_select(key)
    /\ \/ game.game_state = "GameOver"
       \/ game.game_state = "Result" /\ IsSome(game.puzzle.guess_result)

\* the bound on the rounds of a game: whether one more puzzle may be started
MoreRounds(g) ==
    \/ g.rounds < ShortRounds
    \/ g.streak = g.rounds /\ g.rounds < MaxRounds

(***************************************************************************)
(* Spec: the session with a file system that works (every save succeeds).  *)
(***************************************************************************)
Run(dt) == RunWith(dt, "ok")

Tick == \E dt \in Deltas : Run(dt)

Input(key) == InputWith(key, "ok")

\* run_app drops the game once exit is intended: no key reaches it afterwards
KeyPress ==
    /\ ~game.exit_intended
    /\ \E key \in PressedKeys :
        IF CreatesPuzzle(key)
        THEN (game.game_state = "Result" => MoreRounds(game)) /\ InputNewPuzzle(key)
        ELSE Input(key)

Next == Tick \/ KeyPress

Spec == Init /\ [][Next]_vars

(***************************************************************************)
(* PuzzleSpec: BinaryNumbersPuzzle::new on its own, for every mode. The    *)
(* inputs explored are every rng outcome at streak 0 (the target drawn     *)
(* first, the other draws in ascending order, every shuffle) and every     *)
(* streak up to MaxStreak with the rng outcomes of a session.              *)
(***************************************************************************)
PuzzleDraws(bits) ==
    {d \in DrawLoop(bits, << >>) : \A i \in 2..(Len(d) - 1) : d[i] <= d[i + 1]}

PuzzleInit ==
    /\ game = NoGame
    /\ file = NoFile
    /\ puzzle = NoPuzzle
    /\ streak_arg = 0
    /\ AtRest(scores) /\ AtRest(conv) /\ AtRest(anim) /\ now = 0 /\ AtRest(cell) /\ AtRest(app)

PuzzleNew ==
    /\ puzzle = NoPuzzle
    /\ \E bits \in Bits :
         \E drawn \in PuzzleDraws(bits) :
           \E shuffled \in Shuffles(drawn) :
             puzzle' = BinaryNumbersPuzzle_new(bits, 0, drawn, shuffled)
    /\ streak_arg' = 0
    /\ UNCHANGED <<game, file, scores, conv, anim, now, cell, app>>

PuzzleNewAtStreak ==
    /\ puzzle = NoPuzzle
    /\ \E bits \in Bits, streak \in 0..MaxStreak :
         \E drawn \in SessionDraws(bits) :
           \E shuffled \in SessionShuffles(drawn) :
             /\ puzzle' = BinaryNumbersPuzzle_new(bits, streak, drawn, shuffled)
             /\ streak_arg' = streak
    /\ UNCHANGED <<game, file, scores, conv, anim, now, cell, app>>

PuzzleNext == PuzzleNew \/ PuzzleNewAtStreak

PuzzleSpec == PuzzleInit /\ [][PuzzleNext]_vars

(***************************************************************************)
(* HighScoresSpec: a HighScores store on its own. Either a file written by *)
(* someone else is loaded, or a store is built in memory; the store is     *)
(* then saved and loaded again.                                            *)
(***************************************************************************)
\* texts found where a key or a score is expected, each with the u32 it stands for
KeyTexts ==
    {[text |-> <<"4">>, val |-> Some(4)],
     [text |-> <<"4", "2">>, val |-> Some(42)],
     [text |-> <<"4", "1", "2">>, val |-> Some(412)],
     [text |-> <<" ", "8", " ">>, val |-> Some(8)],
     [text |-> <<"+", "4">>, val |-> Some(4)],
     [text |-> <<"7">>, val |-> Some(7)],
     [text |-> <<"x">>, val |-> None],
     [text |-> << >>, val |-> None],
     [text |-> <<"4", " ", "2">>, val |-> None],
     [text |-> <<"-", "4">>, val |-> None]}
ScoreTexts ==
    {[text |-> <<"7">>, val |-> Some(7)],
     [text |-> <<"1", "0">>, val |-> Some(10)],
     [text |-> <<"0">>, val |-> Some(0)],
     [text |-> <<" ", "0", "7", "\t">>, val |-> Some(7)],
     [text |-> << >>, val |-> None],
     [text |-> <<"1", "=", "0">>, val |-> None],
     [text |-> <<"1", ".", "5">>, val |-> None]}
\* a line of a file: a key text, '=' or another separator, a score text
LineInputs == [key : KeyTexts, sep : {"=", ":"}, score : ScoreTexts]
\* the files loaded: no line, one line, two lines
FileInputs == {<< >>} \cup {<<a>> : a \in LineInputs} \cup {<<a, b>> : a, b \in LineInputs}

InputLine(in) == in.key.text \o <<in.sep>> \o in.score.text
InputFile(input) == [exists |-> TRUE, lines |-> [i \in 1..Len(input) |-> InputLine(input[i])]]

\* the stores built in memory: scores of some of the keys of the modes
StoreInputs ==
    UNION {[keys -> {0, 10, 412}] : keys \in SUBSET {4, 44, 412, 16}}

ScoresInit ==
    /\ game = NoGame /\ file = NoFile /\ puzzle = NoPuzzle /\ streak_arg = 0
    /\ AtRest(scores) /\ AtRest(conv) /\ AtRest(anim) /\ now = 0 /\ AtRest(cell) /\ AtRest(app)

\* somebody leaves a file, or none
ScoresFileWritten ==
    /\ AtRest(scores)
    /\ \/ \E input \in FileInputs :
            /\ file' = InputFile(input)
            /\ scores' = [at |-> "file", input |-> input]
       \/ /\ file' = NoFile
          /\ scores' = [at |-> "file", input |-> << >>]
    /\ UNCHANGED <<game, puzzle, streak_arg, conv, anim, now, cell, app>>

\* HighScores::load(), the file readable or not
ScoresLoad ==
    /\ scores.at = "file"
    /\ \E readable \in BOOLEAN :
         scores' = [at |-> "loaded", input |-> scores.input, readable |-> readable,
                    store |-> HighScores_load(file, readable)]
    /\ UNCHANGED <<game, file, puzzle, streak_arg, conv, anim, now, cell, app>>

\* a store filled by HighScores::update
ScoresBuilt ==
    /\ AtRest(scores)
    /\ \E store \in StoreInputs : scores' = [at |-> "built", store |-> store]
    /\ UNCHANGED <<game, file, puzzle, streak_arg, conv, anim, now, cell, app>>

\* HighScores::save(), succeeding
ScoresSave ==
    /\ scores.at \in {"loaded", "built"}
    /\ file' = HighScores_save(scores.store, file, "ok")
    /\ scores' = [at |-> "saved", store |-> scores.store]
    /\ UNCHANGED <<game, puzzle, streak_arg, conv, anim, now, cell, app>>

\* HighScores::load() of the file just saved
ScoresReload ==
    /\ scores.at = "saved"
    /\ scores' = [at |-> "reloaded", saved |-> scores.store,
                  store |-> HighScores_load(file, TRUE)]
    /\ UNCHANGED <<game, file, puzzle, streak_arg, conv, anim, now, cell, app>>

ScoresNext == ScoresFileWritten \/ ScoresLoad \/ ScoresBuilt \/ ScoresSave \/ ScoresReload

HighScoresSpec == ScoresInit /\ [][ScoresNext]_vars

(***************************************************************************)
(* FaultySpec: the session of a game created by BinaryNumbersGame::new with *)
(* a file system that may fail: each save succeeds, fails at File::create  *)
(* or fails at write_all.                                                  *)
(***************************************************************************)
FaultyInit ==
    /\ puzzle = NoPuzzle
    /\ streak_arg = 0
    /\ AtRest(scores) /\ AtRest(conv) /\ AtRest(anim) /\ now = 0 /\ AtRest(cell) /\ AtRest(app)
    /\ \E bits \in SessionModes :
         \E f \in InitialFiles(bits), drawn \in SessionDraws(bits) :
           \E shuffled \in SessionShuffles(drawn) :
             /\ file = f
             /\ game = BinaryNumbersGame_new(bits, f, TRUE, drawn, shuffled)

FaultyTick == \E dt \in Deltas, io \in IoOutcomes : RunWith(dt, io)

FaultyKeyPress ==
    /\ ~game.exit_intended
    /\ \E key \in PressedKeys :
        IF CreatesPuzzle(key)
        THEN (game.game_state = "Result" => MoreRounds(game)) /\ InputNewPuzzle(key)
        ELSE \E io \in IoOutcomes : InputWith(key, io)

FaultyNext == FaultyTick \/ FaultyKeyPress

FaultySpec == FaultyInit /\ [][FaultyNext]_vars

(***************************************************************************)
(* SignedSpec: the text of a suggestion as the puzzle widget renders it,   *)
(* for every mode and a raw pattern: every 5-bit pattern, the largest      *)
(* pattern of 8, 12 and 16 bits and i32::MAX.                              *)
(***************************************************************************)
SignedRaws == 0..31 \cup {255, 4095, 65535, 2147483647}

\* Display of an i32
FormatI32(n) == IF n < 0 THEN <<"-">> \o FormatU32(0 - n) ELSE FormatU32(n)

\* suggestion_str of the render of a suggestion
suggestion_str(bits, suggestion) ==
    IF is_twos_complement(bits)
    THEN FormatI32(raw_to_signed(bits, suggestion))
    ELSE FormatU32(suggestion)

SignedInit ==
    /\ game = NoGame /\ file = NoFile /\ puzzle = NoPuzzle /\ streak_arg = 0
    /\ AtRest(scores) /\ AtRest(conv) /\ AtRest(anim) /\ now = 0 /\ AtRest(cell) /\ AtRest(app)

SignedConvert ==
    /\ \E bits \in Bits, raw \in SignedRaws :
         conv' = [at |-> "converted", bits |-> bits, raw |-> raw,
                  signed |-> raw_to_signed(bits, raw),
                  text |-> suggestion_str(bits, raw)]
    /\ UNCHANGED <<game, file, puzzle, streak_arg, scores, anim, now, cell, app>>

SignedNext == SignedConvert

SignedSpec == SignedInit /\ [][SignedNext]_vars

(***************************************************************************)
(* f32 arithmetic of utils.rs. A float that is not negative is [m, e], the *)
(* number m * 2^e with m odd and below 2^24, zero being [0, 0]: two floats *)
(* are equal exactly when their records are. Every operation rounds its    *)
(* exact result to 24 significant bits, ties to even. Products are formed  *)
(* in base 4096 so that no intermediate number exceeds 31 bits.            *)
(***************************************************************************)
RECURSIVE BitLen(_)
BitLen(n) == IF n = 0 THEN 0 ELSE 1 + BitLen(n \div 2)

\* the record of m * 2^e
RECURSIVE F32(_, _)
F32(m, e) ==
    IF m = 0 THEN [m |-> 0, e |-> 0]
    ELSE IF m % 2 = 0 THEN F32(m \div 2, e + 1)
    ELSE [m |-> m, e |-> e]

\* n as f32, n below 2^24
F32FromInt(n) == F32(n, 0)

F32One == F32FromInt(1)

\* the bits of the quotient after its leading one: q the bits so far, r the
\* remainder, left the bits still to produce; yields <<quotient, remainder>>
RECURSIVE QuotientBits(_, _, _, _)
QuotientBits(q, r, d, left) ==
    IF left = 0 THEN <<q, r>>
    ELSE IF 2 * r >= d THEN QuotientBits(2 * q + 1, 2 * r - d, d, left - 1)
    ELSE QuotientBits(2 * q, 2 * r, d, left - 1)

\* m rounded up, or not, by the remainder rem of a division by den (ties to even)
RoundHalfEven(m, rem, den) ==
    IF 2 * rem > den \/ (2 * rem = den /\ m % 2 = 1) THEN m + 1 ELSE m

\* n as f32 / d as f32, for 0 <= n and 0 < d, both below 2^24
F32Div(n, d) ==
    IF n = 0 THEN F32(0, 0)
    ELSE LET up == IF BitLen(n) < BitLen(d) THEN BitLen(d) - BitLen(n) ELSE 0
             down == IF BitLen(n) > BitLen(d) THEN BitLen(n) - BitLen(d) ELSE 0
             \* num / den = n / d * 2^(down - up) lies between 1/2 and 2
             num == n * Pow2(up)
             den == d * Pow2(down)
             shift == IF num >= den THEN 0 ELSE 1
             lead == num * Pow2(shift)
             qr == QuotientBits(1, lead - den, den, 23)
         IN  F32(RoundHalfEven(qr[1], qr[2], den), down - up - shift - 23)

\* x * y, for two floats of which one has a significand below 2^12: the exact
\* product of the significands is H * 4096 + L
F32Mul(x, y) ==
    LET k == IF x.m < 4096 THEN x.m ELSE y.m
        m == IF x.m < 4096 THEN y.m ELSE x.m
        low == (m % 4096) * k
        H == (m \div 4096) * k + low \div 4096
        L == low % 4096
        drop == IF BitLen(H) > 12 THEN BitLen(H) - 12 ELSE 0
        kept == H * Pow2(12 - drop) + L \div Pow2(drop)
    IN  F32(RoundHalfEven(kept, L % Pow2(drop), Pow2(drop)), x.e + y.e + drop)

\* x as u64: the integer part
F32ToU64(x) ==
    IF x.e >= 0 THEN x.m * Pow2(x.e)
    ELSE IF x.e <= -24 THEN 0
    ELSE x.m \div Pow2(0 - x.e)

\* the fraction of x in units of 2^-24, for x.e >= -24
F32Frac24(x) == IF x.e >= 0 THEN 0 ELSE (x.m % Pow2(0 - x.e)) * Pow2(24 + x.e)

\* x + y, for two floats below 2^23 that are multiples of 2^-24
F32Add(x, y) ==
    LET frac == F32Frac24(x) + F32Frac24(y)
        int == F32ToU64(x) + F32ToU64(y) + frac \div 16777216
        fr == frac % 16777216
        drop == BitLen(int)
        kept == int * Pow2(24 - drop) + (fr \div Pow2(drop))
    IN  F32(RoundHalfEven(kept, fr % Pow2(drop), Pow2(drop)), drop - 24)

\* x <= y: by the position of the leading bit, then by the aligned significands
F32Le(x, y) ==
    IF x.m = 0 \/ y.m = 0 THEN x.m = 0
    ELSE IF BitLen(x.m) + x.e # BitLen(y.m) + y.e
         THEN BitLen(x.m) + x.e < BitLen(y.m) + y.e
         ELSE x.m * Pow2(24 - BitLen(x.m)) <= y.m * Pow2(24 - BitLen(y.m))

(***************************************************************************)
(* utils.rs: struct ProceduralAnimationWidget, its clock and its pause.    *)
(* An Instant is a number of ms; t is Instant::now() at the call.          *)
(***************************************************************************)
ProceduralAnimationWidget_new(num_frames, frame_duration, t) ==
    [num_frames |-> num_frames,
     frame_duration |-> frame_duration,
     pause_at_end |-> 0,
     start_time |-> t,
     paused |-> FALSE,
     paused_progress |-> F32FromInt(0),
     paused_cycle |-> 0]

with_pause_at_end(w, pause) == [w EXCEPT !.pause_at_end = pause]

\* let animation_duration = self.frame_duration * self.num_frames as u32
animation_duration(w) == w.frame_duration * w.num_frames

\* let total_cycle_duration = animation_duration + self.pause_at_end
total_cycle_duration(w) == animation_duration(w) + w.pause_at_end

\* the progress left unclamped during the pause at the end
get_animation_progress_and_cycleUnclamped(w, t) ==
    IF w.paused THEN [progress |-> w.paused_progress, cycle |-> w.paused_cycle]
    ELSE LET elapsed == t - w.start_time
             cycle == elapsed \div total_cycle_duration(w)
             cycle_time == elapsed % total_cycle_duration(w)
         IN  [progress |-> F32Div(cycle_time, animation_duration(w)), cycle |-> cycle]

get_animation_progress_and_cycle(w, t) ==
    IF w.paused THEN [progress |-> w.paused_progress, cycle |-> w.paused_cycle]
    ELSE LET elapsed == t - w.start_time
             cycle == elapsed \div total_cycle_duration(w)
             cycle_time == elapsed % total_cycle_duration(w)
         IN  IF cycle_time >= animation_duration(w)
             THEN [progress |-> F32One, cycle |-> cycle]
             ELSE [progress |-> F32Div(cycle_time, animation_duration(w)), cycle |-> cycle]

pause(w, t) ==
    IF ~w.paused
    THEN LET pc == get_animation_progress_and_cycle(w, t)
         IN  [w EXCEPT !.paused_progress = pc.progress,
                       !.paused_cycle = pc.cycle,
                       !.paused = TRUE]
    ELSE w

\* (paused_cycle as f32 * total as f32 + paused_progress * animation as f32) as u64
elapsed_at_pause(w) ==
    F32ToU64(F32Add(F32Mul(F32FromInt(w.paused_cycle), F32FromInt(total_cycle_duration(w))),
                    F32Mul(w.paused_progress, F32FromInt(animation_duration(w)))))

unpause(w, t) ==
    IF w.paused
    THEN [w EXCEPT !.start_time = t - elapsed_at_pause(w), !.paused = FALSE]
    ELSE w

toggle_pause(w, t) == IF w.paused THEN unpause(w, t) ELSE pause(w, t)

is_paused(w) == w.paused

(***************************************************************************)
(* AnimSpec: a widget on its own: the clock advances between two calls,    *)
(* and the widget is paused and unpaused. The widgets are the one of the   *)
(* title (50 frames of 50 ms, 2 s of pause at the end) and one without a   *)
(* pause at the end (4 frames of 5 ms).                                    *)
(***************************************************************************)
AnimWidgets ==
    {with_pause_at_end(ProceduralAnimationWidget_new(50, 50, 0), 2000),
     ProceduralAnimationWidget_new(4, 5, 0)}

\* the times between two calls, in ms
AnimSteps == {1255, 1245, 2000, 4500}

AnimInit ==
    /\ game = NoGame /\ file = NoFile /\ puzzle = NoPuzzle /\ streak_arg = 0
    /\ AtRest(scores) /\ AtRest(conv) /\ AtRest(cell) /\ AtRest(app)
    /\ now = 0
    /\ anim \in AnimWidgets

AnimAdvance ==
    /\ \E d \in AnimSteps : now + d <= MaxNow /\ now' = now + d
    /\ UNCHANGED <<game, file, puzzle, streak_arg, scores, conv, anim, cell, app>>

AnimPause ==
    /\ anim' = pause(anim, now)
    /\ UNCHANGED <<game, file, puzzle, streak_arg, scores, conv, now, cell, app>>

AnimUnpause ==
    /\ anim' = unpause(anim, now)
    /\ UNCHANGED <<game, file, puzzle, streak_arg, scores, conv, now, cell, app>>

AnimNext == AnimAdvance \/ AnimPause \/ AnimUnpause

AnimSpec == AnimInit /\ [][AnimNext]_vars

(***************************************************************************)
(* app.rs: ascii_animation, the animated title of the start menu. A usize  *)
(* is its bytes, the least significant first: 4 on a 32-bit target, 8 on a *)
(* 64-bit one. A char is a string of length 1, but for the grave accent,   *)
(* which is written "U+0060".                                              *)
(***************************************************************************)
\* the lines of art after indoc has removed the common indentation of 8 spaces
Art ==
    <<<<" ", ",", ",", " ", " ", " ", " ", " ", " ", " ", " ", ",", ",", " ",
           " ", " ", " ", " ", " ", " ", " ", " ", " ", " ", " ", " ", " ", ",",
           ",">>,
      <<"*", "M", "M", " ", " ", " ", " ", " ", " ", " ", " ", "d", "b", " ",
           " ", " ", " ", " ", " ", " ", " ", " ", " ", " ", " ", " ", "*", "M",
           "M", " ", " ", " ", " ", " ", " ", "[", "a", ":", " ", "t", "o", "g",
           "g", "l", "e", " ", "a", "n", "i", "m", "a", "t", "i", "o", "n", "]",
           " ", " ", " ", " ", " ", "U+0060", "7", "M", "M">>,
      <<" ", "M", "M", " ", " ", " ", " ", " ", " ", " ", " ", " ", " ", " ",
           " ", " ", " ", " ", " ", " ", " ", " ", " ", " ", " ", " ", " ", "M",
           "M", " ", " ", " ", " ", " ", " ", " ", " ", " ", " ", " ", " ", " ",
           " ", " ", " ", " ", " ", " ", " ", " ", " ", " ", " ", " ", " ", " ",
           " ", " ", " ", " ", " ", " ", " ", "M", "M">>,
      <<" ", "M", "M", ",", "d", "M", "M", "b", ".", "U+0060", "7", "M", "M", " ",
           " ", "U+0060", "7", "M", "M", "p", "M", "M", "M", "b", ".", " ", " ", "M",
           "M", ",", "d", "M", "M", "b", ".", "U+0060", "7", "M", "b", ",", "o", "d",
           "8", " ", ".", "g", "P", "\"", "Y", "a", " ", " ", " ", ",", "6", "\"",
           "Y", "b", ".", " ", " ", " ", " ", "M", "M", " ", " ", ",", "M", "P",
           "'">>,
      <<" ", "M", "M", " ", " ", " ", " ", "U+0060", "M", "b", " ", "M", "M", " ",
           " ", " ", " ", "M", "M", " ", " ", " ", " ", "M", "M", " ", " ", "M",
           "M", " ", " ", " ", " ", "U+0060", "M", "b", " ", "M", "M", "'", " ", "\"",
           "'", ",", "M", "'", " ", " ", " ", "Y", "b", " ", "8", ")", " ", " ",
           " ", "M", "M", " ", " ", " ", " ", "M", "M", " ", ";", "Y">>,
      <<" ", "M", "M", " ", " ", " ", " ", " ", "M", "8", " ", "M", "M", " ",
           " ", " ", " ", "M", "M", " ", " ", " ", " ", "M", "M", " ", " ", "M",
           "M", " ", " ", " ", " ", " ", "M", "8", " ", "M", "M", " ", " ", " ",
           " ", "8", "M", "\"", "\"", "\"", "\"", "\"", "\"", " ", " ", ",", "p", "m",
           "9", "M", "M", " ", " ", " ", " ", "M", "M", ";", "M", "m">>,
      <<" ", "M", "M", ".", " ", " ", " ", ",", "M", "9", " ", "M", "M", " ",
           " ", " ", " ", "M", "M", " ", " ", " ", " ", "M", "M", " ", " ", "M",
           "M", ".", " ", " ", " ", ",", "M", "9", " ", "M", "M", " ", " ", " ",
           " ", "Y", "M", ".", " ", " ", " ", " ", ",", " ", "8", "M", " ", " ",
           " ", "M", "M", " ", " ", " ", " ", "M", "M", " ", "U+0060", "M", "b", ".">>,
      <<" ", "P", "^", "Y", "b", "m", "d", "P", "'", ".", "J", "M", "M", "L",
           ".", ".", "J", "M", "M", "L", " ", " ", "J", "M", "M", "L", ".", "P",
           "^", "Y", "b", "m", "d", "P", "'", ".", "J", "M", "M", "L", ".", " ",
           " ", " ", "U+0060", "M", "b", "m", "m", "d", "'", " ", "U+0060", "M", "o", "o",
           "9", "^", "Y", "o", ".", ".", "J", "M", "M", "L", ".", " ", "Y", "A",
           ".">>>>

\* let height = art_lines.len()
ArtHeight == Len(Art)

\* let width = art_lines.iter().map(|line| line.len()).max().unwrap_or(0)
ArtWidth == CHOOSE w \in {Len(Art[i]) : i \in 1..Len(Art)} : \A i \in 1..Len(Art) : Len(Art[i]) <= w

\* let strip_width = 8.0
strip_width == 8

\* total_range = end_offset - start_offset, with start_offset = -strip_width and
\* end_offset = (width + height) as f32 + strip_width
total_range == (ArtWidth + ArtHeight) + strip_width + strip_width

\* the sizes of usize in bytes
UsizeBytes == {4, 8}

\* v as usize, for v below 2^16
UsizeOf(v, n) == [i \in 1..n |-> IF i = 1 THEN v % 256 ELSE IF i = 2 THEN v \div 256 ELSE 0]

\* a constant of 4 bytes as usize
UsizeOfBytes(b, n) == [i \in 1..n |-> IF i <= Len(b) THEN b[i] ELSE 0]

\* 2654435761 = 0x9E3779B1, 2246822519 = 0x85EBCA77, 668265263 = 0x27D4EB2F,
\* 1597334677 = 0x5F356495
HashX == <<177, 121, 55, 158>>
HashY == <<119, 202, 235, 133>>
HashMix == <<47, 235, 212, 39>>
HashBinary == <<149, 100, 53, 95>>

\* the sum of a[i] * b[k + 1 - i] for i in from..k
RECURSIVE ColumnSum(_, _, _, _)
ColumnSum(a, b, k, from) ==
    IF from > k THEN 0 ELSE a[from] * b[k + 1 - from] + ColumnSum(a, b, k, from + 1)

\* the bytes k.. of the product, carry coming from the bytes below
RECURSIVE ProductFrom(_, _, _, _)
ProductFrom(a, b, k, carry) ==
    IF k > Len(a) THEN << >>
    ELSE LET s == carry + ColumnSum(a, b, k, 1)
         IN  <<s % 256>> \o ProductFrom(a, b, k + 1, s \div 256)

\* usize::wrapping_mul
wrapping_mul(a, b) == ProductFrom(a, b, 1, 0)

RECURSIVE XorByte(_, _)
XorByte(p, q) ==
    IF p = 0 /\ q = 0 THEN 0
    ELSE ((p + q) % 2) + 2 * XorByte(p \div 2, q \div 2)

\* a ^ b
Xor(a, b) == [i \in 1..Len(a) |-> XorByte(a[i], b[i])]

\* a >> s
ShiftRight(a, s) ==
    LET byte(i) == IF i <= Len(a) THEN a[i] ELSE 0
    IN  [i \in 1..Len(a) |->
            ((byte(i + (s \div 8)) \div Pow2(s % 8))
                + byte(i + (s \div 8) + 1) * Pow2(8 - (s % 8))) % 256]

\* binary_char of char_fn for the cell (x, y), n the size of usize
binary_char(n, x, y) ==
    LET h1 == wrapping_mul(UsizeOf(x, n), UsizeOfBytes(HashX, n))
        h2 == Xor(h1, wrapping_mul(UsizeOf(y, n), UsizeOfBytes(HashY, n)))
        h3 == wrapping_mul(h2, UsizeOfBytes(HashMix, n))
        position_hash == Xor(h3, ShiftRight(h3, 15))
        b1 == wrapping_mul(position_hash, UsizeOfBytes(HashBinary, n))
        binary_hash == Xor(b1, ShiftRight(b1, 16))
    IN  IF binary_hash[1] % 2 = 0 THEN "0" ELSE "1"

\* x - y, for two floats x >= y below 2^23 that are multiples of 2^-24
F32Sub(x, y) ==
    LET borrow == IF F32Frac24(x) < F32Frac24(y) THEN 1 ELSE 0
        fr == F32Frac24(x) + borrow * 16777216 - F32Frac24(y)
        int == F32ToU64(x) - F32ToU64(y) - borrow
        drop == BitLen(int)
        kept == int * Pow2(24 - drop) + (fr \div Pow2(drop))
    IN  F32(RoundHalfEven(kept, fr % Pow2(drop), Pow2(drop)), drop - 24)

\* has_strip_passed of char_fn: diag_pos < start_offset + progress * total_range;
\* the offset is negative, and no diag_pos below it, while the product is below 8.0
has_strip_passed(x, y, progress) ==
    LET travelled == F32Mul(progress, F32FromInt(total_range))
    IN  IF F32Le(travelled, F32FromInt(strip_width)) THEN FALSE
        ELSE ~F32Le(F32Sub(travelled, F32FromInt(strip_width)), F32FromInt(x + y))

\* the transform running forward in every cycle
char_fnAlwaysForward(n, x, y, progress, cycle, original_char) ==
    IF has_strip_passed(x, y, progress) THEN binary_char(n, x, y) ELSE original_char

\* char_fn of ascii_animation
char_fn(n, x, y, progress, cycle, original_char) ==
    LET is_forward_pass == cycle % 2 = 0
    IN  IF is_forward_pass
        THEN IF has_strip_passed(x, y, progress) THEN binary_char(n, x, y) ELSE original_char
        ELSE IF has_strip_passed(x, y, progress) THEN original_char ELSE binary_char(n, x, y)

(***************************************************************************)
(* TitleSpec: one cell of the title rendered by                            *)
(* render_to_buffer_at_progress, for either size of usize, every cell of   *)
(* art that is not a space, the cycles up to MaxCycle and the progress at  *)
(* the start, at a quarter, near the middle, 1 ms before the end and at    *)
(* the end of the animation.                                               *)
(***************************************************************************)
\* (x, y) of the chars of art that render_to_buffer_at_progress does not skip
ArtCells == {c \in (0..(ArtWidth - 1)) \X (0..(ArtHeight - 1)) :
                c[1] < Len(Art[c[2] + 1]) /\ Art[c[2] + 1][c[1] + 1] # " "}

TitleProgress ==
    {F32FromInt(0), F32Div(625, 2500), F32Div(1255, 2500), F32Div(2499, 2500), F32One}

TitleInit ==
    /\ game = NoGame /\ file = NoFile /\ puzzle = NoPuzzle /\ streak_arg = 0
    /\ AtRest(scores) /\ AtRest(conv) /\ AtRest(anim) /\ now = 0 /\ AtRest(app)
    /\ AtRest(cell)

TitleRender ==
    /\ AtRest(cell)
    /\ \E n \in UsizeBytes, c \in ArtCells, progress \in TitleProgress, cycle \in 0..MaxCycle :
         LET ch == Art[c[2] + 1][c[1] + 1]
         IN  cell' = [at |-> "rendered", usize |-> n, x |-> c[1], y |-> c[2],
                      original |-> ch, progress |-> progress, cycle |-> cycle,
                      display_char |-> char_fn(n, c[1], c[2], progress, cycle, ch)]
    /\ UNCHANGED <<game, file, puzzle, streak_arg, scores, conv, anim, now, app>>

TitleNext == TitleRender

TitleSpec == TitleInit /\ [][TitleNext]_vars

(***************************************************************************)
(* app.rs: the start menu, the dispatch of input events and run_app.       *)
(* An event is [kind, code, modifiers]; the AppState is the fields state,  *)
(* menu and prefs of app, the game of Playing being the variable game.     *)
(* The loop of run_app is followed by app.pc: "top" (the loop test and the *)
(* advance of the game), "draw", "input" (the wait for an event and its    *)
(* handling, then the frame cap) and "done" (the loop has ended).          *)
(* app.event is the event read in this iteration and app.handler the arm   *)
(* of handle_crossterm_events that ran for it.                             *)
(***************************************************************************)
NoMenu == [selected |-> "none"]
NoEvent == [kind |-> "none"]
NoWait == [mode |-> "none"]

\* impl Default for AppPreferences
AppPreferences_default == [last_selected_index |-> 4, last_number_mode |-> "Unsigned"]

\* the Bits of items in StartMenuState::with_preferences
MenuItems == <<"Four", "FourShift4", "FourShift8", "FourShift12", "Eight", "Twelve", "Sixteen">>

\* ascii_animation: the widget of the title, created at t
ascii_animation(t) == with_pause_at_end(ProceduralAnimationWidget_new(50, 50, t), 2000)

\* StartMenuState::new
StartMenuState_new(prefs, t) ==
    [selected |-> prefs.last_selected_index,
     animation |-> ascii_animation(t),
     number_mode |-> prefs.last_number_mode]

selected_index(menu) == menu.selected
selected_bits(menu) == MenuItems[selected_index(menu) + 1]

select_next(menu) ==
    [menu EXCEPT !.selected = IF @ + 1 >= Len(MenuItems) THEN @ ELSE @ + 1]

select_previous(menu) ==
    [menu EXCEPT !.selected = IF @ = 0 THEN 0 ELSE @ - 1]

toggle_animation(menu, t) == [menu EXCEPT !.animation = toggle_pause(@, t)]

toggle_number_mode(menu) ==
    [menu EXCEPT !.number_mode = IF @ = "Unsigned" THEN "Signed" ELSE "Unsigned"]

\* the preferences left as they were when a game is started
handle_start_inputKeepsPrefs(menu, prefs, code, t, g, f, drawn, shuffled) ==
    CASE is_up(code) ->
            [state |-> "Start", menu |-> select_previous(menu), prefs |-> prefs, game |-> g]
      [] is_down(code) ->
            [state |-> "Start", menu |-> select_next(menu), prefs |-> prefs, game |-> g]
      [] is_left(code) \/ is_right(code) ->
            [state |-> "Start", menu |-> toggle_number_mode(menu), prefs |-> prefs, game |-> g]
      [] is_select(code) ->
            [state |-> "Playing", menu |-> NoMenu, prefs |-> prefs,
             game |-> BinaryNumbersGame_new(selected_bits(menu), f, TRUE, drawn, shuffled)]
      [] is_exit(code) ->
            [state |-> "Exit", menu |-> NoMenu, prefs |-> prefs, game |-> g]
      [] code \in {"a", "A"} ->
            [state |-> "Start", menu |-> toggle_animation(menu, t), prefs |-> prefs, game |-> g]
      [] OTHER ->
            [state |-> "Start", menu |-> menu, prefs |-> prefs, game |-> g]

\* handle_start_input: the AppState and the game after the key. The game is
\* created by BinaryNumbersGame::new(bits) of binary_numbers.rs, which takes no
\* number_mode.
handle_start_input(menu, prefs, code, t, g, f, drawn, shuffled) ==
    CASE is_up(code) ->
            [state |-> "Start", menu |-> select_previous(menu), prefs |-> prefs, game |-> g]
      [] is_down(code) ->
            [state |-> "Start", menu |-> select_next(menu), prefs |-> prefs, game |-> g]
      [] is_left(code) \/ is_right(code) ->
            [state |-> "Start", menu |-> toggle_number_mode(menu), prefs |-> prefs, game |-> g]
      [] is_select(code) ->
            [state |-> "Playing", menu |-> NoMenu,
             prefs |-> [last_selected_index |-> selected_index(menu),
                        last_number_mode |-> menu.number_mode],
             game |-> BinaryNumbersGame_new(selected_bits(menu), f, TRUE, drawn, shuffled)]
      [] is_exit(code) ->
            [state |-> "Exit", menu |-> NoMenu, prefs |-> prefs, game |-> g]
      [] code \in {"a", "A"} ->
            [state |-> "Start", menu |-> toggle_animation(menu, t), prefs |-> prefs, game |-> g]
      [] OTHER ->
            [state |-> "Start", menu |-> menu, prefs |-> prefs, game |-> g]

\* KeyCode::Char('c' | 'C') if key.modifiers == KeyModifiers::CONTROL
IsGlobalExit(ev) == ev.code \in {"c", "C"} /\ ev.modifiers = "CONTROL"

\* Ctrl+C left to the handler of the state
handle_crossterm_eventsNoGlobalExit(a, g, f, ev, t, drawn, shuffled) ==
    IF ev.kind # "Press"
    THEN [state |-> a.state, menu |-> a.menu, prefs |-> a.prefs, game |-> g, file |-> f,
          handler |-> "none"]
    ELSE CASE a.state = "Start" ->
                LET r == handle_start_input(a.menu, a.prefs, ev.code, t, g, f, drawn, shuffled)
                IN  [state |-> r.state, menu |-> r.menu, prefs |-> r.prefs, game |-> r.game,
                     file |-> f, handler |-> "handle_start_input"]
           [] a.state = "Playing" ->
                LET w == handle_game_input(g, f, ev.code, "ok", drawn, shuffled)
                IN  [state |-> "Playing", menu |-> a.menu, prefs |-> a.prefs, game |-> w.game,
                     file |-> w.file, handler |-> "handle_input"]
           [] OTHER ->
                [state |-> "Exit", menu |-> NoMenu, prefs |-> a.prefs, game |-> NoGame,
                 file |-> f, handler |-> "none"]

\* handle_crossterm_events for the event ev read at t: the AppState, the game and
\* the file after it (a game is dropped with the AppState that held it)
handle_crossterm_events(a, g, f, ev, t, drawn, shuffled) ==
    IF ev.kind # "Press"
    THEN [state |-> a.state, menu |-> a.menu, prefs |-> a.prefs, game |-> g, file |-> f,
          handler |-> "none"]
    ELSE IF IsGlobalExit(ev)
    THEN [state |-> "Exit", menu |-> NoMenu, prefs |-> a.prefs, game |-> NoGame, file |-> f,
          handler |-> "global exit"]
    ELSE CASE a.state = "Start" ->
                LET r == handle_start_input(a.menu, a.prefs, ev.code, t, g, f, drawn, shuffled)
                IN  [state |-> r.state, menu |-> r.menu, prefs |-> r.prefs, game |-> r.game,
                     file |-> f, handler |-> "handle_start_input"]
           [] a.state = "Playing" ->
                LET w == handle_game_input(g, f, ev.code, "ok", drawn, shuffled)
                IN  [state |-> "Playing", menu |-> a.menu, prefs |-> a.prefs, game |-> w.game,
                     file |-> w.file, handler |-> "handle_input"]
           [] OTHER ->
                [state |-> "Exit", menu |-> NoMenu, prefs |-> a.prefs, game |-> NoGame,
                 file |-> f, handler |-> "none"]

\* BinaryNumbersGame::is_active
is_active(g) == g.game_state = "Active"

\* the intent to exit honoured only once the game is over
is_exit_intendedWhenOver(g) == g.exit_intended /\ g.game_state = "GameOver"

\* MainScreenWidget::is_exit_intended
is_exit_intended(g) == g.exit_intended

\* the blocking read whatever the state of the game
get_fps_modeAlwaysPerformance(g) == "Performance"

\* real time whenever the game is not over
get_fps_modeUnlessGameOver(g) ==
    IF g.game_state # "GameOver" THEN "RealTime" ELSE "Performance"

get_fps_mode(g) == IF is_active(g) THEN "RealTime" ELSE "Performance"

\* let target_frame_duration = std::time::Duration::from_millis(33)
target_frame_duration == 33

\* run_app, "handle input": how the event is waited for after the draw
InputWait(a, g) ==
    CASE a.state = "Playing" ->
            IF get_fps_mode(g) = "RealTime"
            THEN [mode |-> "poll", timeout |-> Min(a.dt, target_frame_duration)]
            ELSE [mode |-> "block"]
      [] a.state = "Start" ->
            IF ~is_paused(a.menu.animation)
            THEN [mode |-> "poll", timeout |-> Min(a.dt, target_frame_duration)]
            ELSE [mode |-> "block"]
      [] OTHER -> NoWait

\* run_app, "cap frame rate": the time at which the iteration begun at last ends
FrameCap(t, last) == Max(t, last + target_frame_duration)

(***************************************************************************)
(* AppSpec: run_app from its start, for MaxFrames iterations of its loop.  *)
(* The events are presses of Ctrl+C, c, Enter, Esc, Up, a and s and a      *)
(* release of Ctrl+C; a blocking read returns at once or after 4.5 s.      *)
(***************************************************************************)
AppEvents ==
    {[kind |-> "Press", code |-> "c", modifiers |-> "CONTROL"],
     [kind |-> "Release", code |-> "c", modifiers |-> "CONTROL"],
     [kind |-> "Press", code |-> "c", modifiers |-> "NONE"],
     [kind |-> "Press", code |-> "Enter", modifiers |-> "NONE"],
     [kind |-> "Press", code |-> "Esc", modifiers |-> "NONE"],
     [kind |-> "Press", code |-> "Up", modifiers |-> "NONE"],
     [kind |-> "Press", code |-> "a", modifiers |-> "NONE"],
     [kind |-> "Press", code |-> "s", modifiers |-> "NONE"]}

\* the times a read may wait for its event, in ms
AppWaits == {0, 4500}

AppInit ==
    /\ puzzle = NoPuzzle /\ streak_arg = 0
    /\ AtRest(scores) /\ AtRest(conv) /\ AtRest(anim) /\ AtRest(cell)
    /\ now = 0
    /\ game = NoGame
    /\ file = NoFile
    /\ app = [state |-> "Start",
              menu |-> StartMenuState_new(AppPreferences_default, 0),
              prefs |-> AppPreferences_default,
              pc |-> "top", dt |-> 0, last_frame_time |-> 0, frames |-> 0,
              wait |-> NoWait, event |-> NoEvent, handler |-> "none", drawn |-> "none"]

\* the loop test has found AppState::Exit
AppLeave ==
    /\ app.pc = "top" /\ app.state = "Exit"
    /\ app' = [app EXCEPT !.pc = "done"]
    /\ UNCHANGED <<game, file, puzzle, streak_arg, scores, conv, anim, now, cell>>

\* the head of an iteration in the menu: dt
AppBeginInMenu ==
    /\ app.pc = "top" /\ app.state = "Start" /\ app.frames < MaxFrames
    /\ app' = [app EXCEPT !.dt = now - app.last_frame_time, !.last_frame_time = now,
                          !.frames = @ + 1, !.event = NoEvent, !.handler = "none",
                          !.pc = "draw"]
    /\ UNCHANGED <<game, file, puzzle, streak_arg, scores, conv, anim, now, cell>>

\* the head of an iteration in a game: dt, game.run(dt), then the exit check
AppAdvanceStep ==
    /\ app.pc = "top" /\ app.state = "Playing"
    /\ LET dt == now - app.last_frame_time
           w == Game_run(game, file, dt, "ok")
           begun == [app EXCEPT !.dt = dt, !.last_frame_time = now, !.frames = @ + 1,
                                !.event = NoEvent, !.handler = "none"]
       IN  /\ file' = w.file
           /\ IF is_exit_intended(w.game)
              THEN /\ game' = NoGame
                   /\ app' = [begun EXCEPT !.state = "Start",
                                           !.menu = StartMenuState_new(app.prefs, now),
                                           !.pc = "top"]
              ELSE /\ game' = w.game
                   /\ app' = [begun EXCEPT !.pc = "draw"]
    /\ UNCHANGED <<puzzle, streak_arg, scores, conv, anim, now, cell>>

AppAdvance == app.frames < MaxFrames /\ AppAdvanceStep

\* terminal.draw, then the choice of how to wait
AppDraw ==
    /\ app.pc = "draw"
    /\ app' = [app EXCEPT !.drawn = IF app.state = "Start" THEN "menu" ELSE "game",
                          !.wait = InputWait(app, game),
                          !.pc = "input"]
    /\ UNCHANGED <<game, file, puzzle, streak_arg, scores, conv, anim, now, cell>>

\* event::poll returns false after its timeout; then the frame cap
AppPollTimeout ==
    /\ app.pc = "input" /\ app.wait.mode = "poll"
    /\ now' = FrameCap(now + app.wait.timeout, app.last_frame_time)
    /\ app' = [app EXCEPT !.pc = "top"]
    /\ UNCHANGED <<game, file, puzzle, streak_arg, scores, conv, anim, cell>>

\* whether handling ev draws from the rng: a game or a puzzle is created
DrawsFromRng(ev) ==
    /\ ev.kind = "Press" /\ ~IsGlobalExit(ev)
    /\ \/ app.state = "Start" /\ is_select(ev.code)
       \/ app.state = "Playing" /\ CreatesPuzzle(ev.code)

\* the bits of the game or puzzle that handling an event creates
CreatedBits == IF app.state = "Start" THEN selected_bits(app.menu) ELSE game.bits

\* the shuffle that leaves the suggestions as they were drawn
IdleShuffles(drawn) == {drawn}

\* the orders the shuffle is explored in
OneOfShuffles(drawn, as_drawn) ==
    IF as_drawn THEN IdleShuffles(drawn) ELSE SessionShuffles(drawn)

\* an event of events is read after a wait of d of waits, within the timeout
\* when polling, and handled; then the frame cap. The shuffle of the rng leaves
\* the suggestions in any rotation, or as they were drawn if as_drawn.
AppEventWithin(events, waits, as_drawn) ==
    /\ app.pc = "input"
    /\ \E ev \in events, d \in waits :
         /\ app.wait.mode = "poll" => d <= app.wait.timeout
         /\ now + d <= MaxNow
         /\ (app.state = "Playing" /\ game.game_state = "Result" /\ DrawsFromRng(ev))
               => MoreRounds(game)
         /\ \E drawn \in IF DrawsFromRng(ev) THEN SessionDraws(CreatedBits) ELSE {<< >>} :
              \E shuffled \in IF DrawsFromRng(ev) THEN OneOfShuffles(drawn, as_drawn) ELSE {<< >>} :
                LET r == handle_crossterm_events(app, game, file, ev, now + d, drawn, shuffled)
                IN  /\ game' = r.game
                    /\ file' = r.file
                    /\ app' = [app EXCEPT !.state = r.state, !.menu = r.menu,
                                          !.prefs = r.prefs, !.event = ev,
                                          !.handler = r.handler, !.pc = "top"]
                    /\ now' = FrameCap(now + d, app.last_frame_time)
    /\ UNCHANGED <<puzzle, streak_arg, scores, conv, anim, cell>>

AppEventOf(events) == AppEventWithin(events, AppWaits, FALSE)

AppEvent == AppEventOf(AppEvents)

AppNext ==
    AppLeave \/ AppBeginInMenu \/ AppAdvance \/ AppDraw \/ AppPollTimeout \/ AppEvent

AppSpec == AppInit /\ [][AppNext]_vars

(***************************************************************************)
(* MenuSpec: run_app with the keys that move through the menu and in and   *)
(* out of a game: Up, Down, Left (the number mode), Enter and Esc. The rng  *)
(* leaves the suggestions as drawn.                                        *)
(***************************************************************************)
MenuEvents ==
    {[kind |-> "Press", code |-> c, modifiers |-> "NONE"] :
        c \in {"Up", "Down", "Left", "Enter", "Esc"}}

MenuEvent == AppEventWithin(MenuEvents, AppWaits, TRUE)

MenuNext ==
    AppLeave \/ AppBeginInMenu \/ AppAdvance \/ AppDraw \/ AppPollTimeout \/ MenuEvent

MenuSpec == AppInit /\ [][MenuNext]_vars

(***************************************************************************)
(* IdleSpec: run_app with a player who presses Enter, s and a during the   *)
(* first IdleFrames iterations of the loop and no key afterwards. The loop *)
(* is followed for as long as it runs: in a game it ends at a blocking     *)
(* read, in the menu after MaxFrames iterations. The rng leaves the        *)
(* suggestions as drawn, so that Enter answers correctly and s misses. The *)
(* thread of run_app keeps running: the head of an iteration, the draw and *)
(* the return of event::poll at its timeout are taken whenever they are    *)
(* due; no key has to arrive.                                              *)
(***************************************************************************)
IdleEvents ==
    {[kind |-> "Press", code |-> c, modifiers |-> "NONE"] : c \in {"Enter", "s", "a"}}

IdleEvent ==
    /\ app.frames <= IdleFrames
    /\ AppEventWithin(IdleEvents, AppWaits, TRUE)

IdleNext == AppBeginInMenu \/ AppAdvanceStep \/ AppDraw \/ AppPollTimeout \/ IdleEvent

IdleSpec ==
    /\ AppInit /\ [][IdleNext]_vars
    /\ WF_vars(AppAdvanceStep) /\ WF_vars(AppDraw) /\ WF_vars(AppPollTimeout)

(***************************************************************************)
(* The claims.                                                             *)
(***************************************************************************)
\* a step that resolves the round of the current puzzle
Resolves == ~game.puzzle_resolved /\ game'.puzzle_resolved

\* the outcome the resolving step leaves in the puzzle
Outcome == Unwrap(game'.puzzle.guess_result)

\* C1: in every reachable state of a session, whatever max_lives it was created
\* with, lives <= max_lives.
C1_LivesWithinMax == game.lives <= game.max_lives

\* a life was gained up to a max_lives above the three starting lives
C1_Witness == game.max_lives = 4 /\ game.lives = 4 /\ game.rounds = 5

\* C2: a round resolution that leaves lives = 0 sets PendingGameOver, never GameOver;
\* the only step that enters GameOver is Enter pressed in PendingGameOver; and
\* GameOver implies lives = 0.
C2_GameOverOnlyAfterConfirm ==
    [][/\ (Resolves /\ game'.lives = 0) => game'.game_state = "PendingGameOver"
       /\ Resolves => game'.game_state # "GameOver"
       /\ (game.game_state # "GameOver" /\ game'.game_state = "GameOver") =>
            /\ game.game_state = "PendingGameOver"
            /\ game.lives = 0
            /\ \E key \in KeyCodes : is_select(key) /\ Input(key)
       /\ game'.game_state = "GameOver" => game'.lives = 0]_vars

\* the summary is shown after the last life was lost and Enter was pressed
C2_Witness == game.game_state = "GameOver" /\ game.lives = 0 /\ game.rounds = 3

\* C3: a round resolved Correct at streak s sets streak = s + 1 and
\* max_streak = max(max_streak, s + 1), awards 10 + 2 * s points (10, 12, 18 for
\* s = 0, 1, 4), adds them to score and records them in last_points_awarded.
C3_CorrectRound ==
    [][(Resolves /\ Outcome = "Correct") =>
        LET s == game.streak
            points == game'.puzzle.last_points_awarded
        IN  /\ game'.streak = s + 1
            /\ game'.max_streak = Max(game.max_streak, s + 1)
            /\ points = 10 + 2 * s
            /\ game'.score = game.score + points
            /\ s = 0 => points = 10
            /\ s = 1 => points = 12
            /\ s = 4 => points = 18]_vars

\* the fifth correct answer in a row has been scored: 10 + 12 + 14 + 16 + 18
C3_Witness ==
    game.streak = 5 /\ game.puzzle.last_points_awarded = 18 /\ game.score = 70

\* C4: a round resolved Correct adds one life exactly when the new streak is a
\* multiple of 5 and lives < max_lives; otherwise lives is unchanged.
C4_LifeEveryFifthStreak ==
    [][(Resolves /\ Outcome = "Correct") =>
        /\ game'.lives = game.lives + 1 <=>
               (game'.streak % 5 = 0 /\ game.lives < game.max_lives)
        /\ game'.lives # game.lives + 1 => game'.lives = game.lives]_vars

\* the streak reached 5 with three of four lives: the fourth was granted
C4_Witness ==
    /\ game.streak = 5 /\ game.lives = 4 /\ game.max_lives = 4
    /\ game.puzzle.guess_result = Some("Correct")

\* C5: a round resolved Incorrect or Timeout sets streak = 0 and
\* last_points_awarded = 0, leaves score and max_streak unchanged and takes one
\* life if lives > 0 (lives stays 0 otherwise, never below 0).
C5_MissedRound ==
    [][(Resolves /\ Outcome \in {"Incorrect", "Timeout"}) =>
        /\ game'.streak = 0
        /\ game'.puzzle.last_points_awarded = 0
        /\ game'.score = game.score
        /\ game'.max_streak = game.max_streak
        /\ game'.lives = (IF game.lives > 0 THEN game.lives - 1 ELSE 0)
        /\ game'.lives >= 0]_vars

\* a wrong answer after two correct ones: streak back to 0, a life lost
C5_Witness ==
    /\ game.puzzle.guess_result = Some("Incorrect") /\ game.puzzle_resolved
    /\ game.streak = 0 /\ game.max_streak = 2 /\ game.score = 22
    /\ game.lives = 2 /\ game.max_lives = 3

\* the stats a round resolution counts into, and the high-score store
Counted(g) ==
    <<g.score, g.streak, g.max_streak, g.lives, g.rounds, g.high_scores>>

\* the outcome of the current puzzle is set and its round is resolved
Resolved(g) == IsSome(g.puzzle.guess_result) /\ g.puzzle_resolved

\* C6 as stated: finalize_round invoked again on a puzzle whose outcome is set and
\* whose round is resolved leaves score, streak, max_streak, lives, rounds and the
\* high-score store unchanged.
C6_FinalizeRoundIdempotent ==
    Resolved(game) => Counted(finalize_round(game, file, "ok").game) = Counted(game)

\* C6 as amended: the resolved flag guards the call in run, not finalize_round:
\* a tick on a puzzle whose outcome is set and whose round is resolved does not
\* resolve it again, and leaves score, streak, max_streak, lives, rounds, the
\* high-score store and the file unchanged.
C6_TickResolvesOnce ==
    [][\A dt \in Deltas :
        (Resolved(game) /\ Run(dt)) =>
            /\ Counted(game') = Counted(game)
            /\ game'.puzzle_resolved
            /\ file' = file]_vars

\* a correct answer was resolved by Enter and a tick has run since: the snapshot
\* taken by that tick shows the Result state, and the round counted once
C6_Witness ==
    /\ Resolved(game) /\ game.puzzle.guess_result = Some("Correct")
    /\ IsSome(game.puzzle.stats_snapshot)
    /\ Unwrap(game.puzzle.stats_snapshot).game_state = "Result"
    /\ game.rounds = 1 /\ game.score = 10 /\ game.streak = 1

\* a tick of a game that is not over and whose puzzle has no outcome yet
TimerTick(dt) ==
    game.game_state # "GameOver" /\ ~IsSome(game.puzzle.guess_result) /\ Run(dt)

\* C7: the first run after a puzzle is created leaves time_left and the outcome
\* unchanged for every delta and consumes the skip; a later run whose delta is at
\* least time_left sets time_left = 0 and the outcome Timeout. The skip is taken
\* once: no run sets it again.
C7_FirstDeltaSkipped ==
    [][\A dt \in Deltas :
        /\ (game.puzzle.skip_first_dt /\ TimerTick(dt)) =>
              /\ game'.puzzle.time_left = game.puzzle.time_left
              /\ game'.puzzle.guess_result = None
              /\ ~game'.puzzle.skip_first_dt
        /\ (~game.puzzle.skip_first_dt /\ dt >= game.puzzle.time_left /\ TimerTick(dt)) =>
              /\ game'.puzzle.time_left = 0
              /\ game'.puzzle.guess_result = Some("Timeout")
        /\ (~game.puzzle.skip_first_dt /\ Run(dt)) => ~game'.puzzle.skip_first_dt]_vars

\* the skip was consumed with the budget untouched
C7_Witness ==
    /\ ~game.puzzle.skip_first_dt /\ game.puzzle.guess_result = None
    /\ game.puzzle.time_left = game.puzzle.time_total

\* C8: once the outcome is set, no run changes the outcome or time_left, and no
\* step changes them while the puzzle keeps an outcome. Before that, a run that is
\* not the skipped one sets time_left = max(0, time_left - delta): time_left does
\* not grow, stays within 0..time_total, and the outcome becomes Timeout exactly
\* when time_left reaches 0.
C8_TimerStopsAtOutcome ==
    [][/\ \A dt \in Deltas :
            /\ (IsSome(game.puzzle.guess_result) /\ Run(dt)) =>
                  /\ game'.puzzle.guess_result = game.puzzle.guess_result
                  /\ game'.puzzle.time_left = game.puzzle.time_left
            /\ (~game.puzzle.skip_first_dt /\ TimerTick(dt)) =>
                  /\ game'.puzzle.time_left = Max(0, game.puzzle.time_left - dt)
                  /\ game'.puzzle.time_left <= game.puzzle.time_left
                  /\ game'.puzzle.guess_result = Some("Timeout") <=>
                         game'.puzzle.time_left = 0
                  /\ game'.puzzle.time_left > 0 => game'.puzzle.guess_result = None
       /\ (IsSome(game.puzzle.guess_result) /\ IsSome(game'.puzzle.guess_result)) =>
            /\ game'.puzzle.guess_result = game.puzzle.guess_result
            /\ game'.puzzle.time_left = game.puzzle.time_left
       /\ game'.puzzle.time_left \in 0..game'.puzzle.time_total]_vars

\* a correct answer given with part of the budget left, and a tick run since
C8_Witness ==
    /\ game.puzzle.guess_result = Some("Correct")
    /\ game.puzzle.time_left > 0 /\ game.puzzle.time_left < game.puzzle.time_total
    /\ IsSome(game.puzzle.stats_snapshot)
    /\ Unwrap(game.puzzle.stats_snapshot).game_state = "Result"

\* C9: a new puzzle of any mode has suggestion_count candidates, pairwise
\* distinct, each a multiple of scale_factor; its target is one of them and
\* raw_current_number * scale_factor = current_number.
C9_PuzzleGenerated ==
    puzzle.bits # "none" =>
        LET n == Len(puzzle.suggestions)
            scale == scale_factor(puzzle.bits)
        IN  /\ n = suggestion_count(puzzle.bits)
            /\ \A i, j \in 1..n : i # j => puzzle.suggestions[i] # puzzle.suggestions[j]
            /\ \A i \in 1..n : puzzle.suggestions[i] % scale = 0
            /\ \E i \in 1..n : puzzle.suggestions[i] = puzzle.current_number
            /\ puzzle.raw_current_number * scale = puzzle.current_number

\* a puzzle of the mode scaled by 4096 whose target, raw 2, was shuffled to the end
C9_Witness ==
    /\ puzzle.bits = "FourShift12"
    /\ puzzle.raw_current_number = 2 /\ puzzle.current_number = 8192
    /\ puzzle.suggestions[3] = 8192

\* the base times C10 names, by bit width, in ms
BaseTimeByWidth(bits) ==
    CASE to_int(bits) = 4 -> 8000
      [] to_int(bits) = 8 -> 12000
      [] to_int(bits) = 12 -> 16000
      [] to_int(bits) = 16 -> 20000

\* C10: a puzzle created at streak s in a mode of base time b has
\* time_total = max(5 s, b - 0.5 s * s), never below 5 s, and time_left = time_total.
C10_TimeBudget ==
    puzzle.bits # "none" =>
        /\ puzzle.time_total = Max(5000, BaseTimeByWidth(puzzle.bits) - 500 * streak_arg)
        /\ puzzle.time_total >= 5000
        /\ puzzle.time_left = puzzle.time_total

\* a 16-bit puzzle at streak 32: 20 s - 16 s is below the floor
C10_Witness ==
    puzzle.bits = "Sixteen" /\ streak_arg = 32 /\ puzzle.time_total = 5000

\* the state changes C11 allows
SessionTransitions ==
    {<<"Active", "Result">>, <<"Active", "PendingGameOver">>, <<"Result", "Active">>,
     <<"Result", "PendingGameOver">>, <<"PendingGameOver", "GameOver">>,
     <<"GameOver", "Active">>}

\* C11: every step of a session, tick or key, that changes game_state takes one of
\* the transitions Active->Result, Active->PendingGameOver, Result->Active,
\* Result->PendingGameOver, PendingGameOver->GameOver, GameOver->Active.
C11_StateTransitions ==
    [][game'.game_state # game.game_state =>
          <<game.game_state, game'.game_state>> \in SessionTransitions]_vars

\* a game restarted from the summary: no round played yet, while the store holds
\* the 22 points of the game before
C11_Witness ==
    /\ game.game_state = "Active" /\ game.rounds = 0
    /\ HighScores_get(game.high_scores, high_score_key(game.bits)) = 22

\* Enter handled while the game is Active and the puzzle has no outcome
SelectInActive ==
    /\ game.game_state = "Active" /\ ~IsSome(game.puzzle.guess_result)
    /\ \E key \in KeyCodes : is_select(key) /\ Input(key)

\* C12: in Active with no outcome a candidate is selected, and Enter sets the
\* outcome Correct if the selected candidate equals current_number and Incorrect
\* otherwise, and resolves the round in the same step: the round is counted and
\* scored, a life is taken for a miss, and the state is Result or PendingGameOver.
C12_SelectChecksGuess ==
    [][/\ (game.game_state = "Active" /\ ~IsSome(game.puzzle.guess_result)) =>
             IsSome(game.puzzle.selected_suggestion)
       /\ SelectInActive =>
            LET correct == Unwrap(game.puzzle.selected_suggestion) = game.puzzle.current_number
            IN  /\ game'.puzzle.guess_result = Some(IF correct THEN "Correct" ELSE "Incorrect")
                /\ game'.puzzle_resolved /\ ~game.puzzle_resolved
                /\ game'.rounds = game.rounds + 1
                /\ game'.streak = (IF correct THEN game.streak + 1 ELSE 0)
                /\ game'.score = (IF correct THEN game.score + 10 + 2 * game.streak
                                  ELSE game.score)
                /\ ~correct => game'.lives = Max(game.lives - 1, 0)
                /\ correct => game'.lives >= game.lives
                /\ game'.game_state =
                       (IF game'.lives = 0 THEN "PendingGameOver" ELSE "Result")]_vars

\* a wrong candidate confirmed by Enter, no tick run since: the snapshot still
\* shows the Active state
C12_Witness ==
    /\ game.puzzle.guess_result = Some("Incorrect") /\ game.game_state = "Result"
    /\ Unwrap(game.puzzle.selected_suggestion) # game.puzzle.current_number
    /\ Unwrap(game.puzzle.stats_snapshot).game_state = "Active"

\* the skip key handled while the game is Active and the puzzle has no outcome
SkipInActive ==
    /\ game.game_state = "Active" /\ ~IsSome(game.puzzle.guess_result)
    /\ \E key \in KeyCodes : is_skip(key) /\ Input(key)

\* C13 as stated: the skip sets the outcome Timeout whatever time_left and the
\* selection are, and resolves the round with streak 0, no points and one life lost.
C13_SkipCostsALife ==
    [][SkipInActive =>
        /\ game'.puzzle.guess_result = Some("Timeout")
        /\ game'.puzzle_resolved
        /\ game'.streak = 0
        /\ game'.puzzle.last_points_awarded = 0
        /\ game'.lives = game.lives - 1]_vars

\* C13 as amended: the skip sets the outcome Timeout whatever time_left and the
\* selection are, and resolves the round as the timer running out does (a tick of
\* time_left once the first delta was skipped): streak 0, no points, score kept,
\* and one life lost if any is left; a game created with max_lives 0 plays with
\* lives 0 and loses none.
C13_SkipIsTimeout ==
    [][SkipInActive =>
        LET t == Game_run([game EXCEPT !.puzzle.skip_first_dt = FALSE], file,
                          game.puzzle.time_left, "ok")
        IN  /\ game'.puzzle.guess_result = Some("Timeout")
            /\ game'.puzzle_resolved
            /\ game'.streak = 0
            /\ game'.puzzle.last_points_awarded = 0
            /\ game'.score = game.score
            /\ game'.lives = (IF game.lives > 0 THEN game.lives - 1 ELSE 0)
            /\ t.game.puzzle.guess_result = Some("Timeout")
            /\ Counted(game') = Counted(t.game)
            /\ game'.game_state = t.game.game_state
            /\ game'.puzzle.last_points_awarded = t.game.puzzle.last_points_awarded
            /\ file' = t.file]_vars

\* the target was selected and the whole budget left when the puzzle was skipped
C13_Witness ==
    /\ game.puzzle.guess_result = Some("Timeout") /\ game.puzzle_resolved
    /\ Unwrap(game.puzzle.selected_suggestion) = game.puzzle.current_number
    /\ game.puzzle.time_left = game.puzzle.time_total
    /\ game.lives = 2 /\ game.max_lives = 3 /\ game.streak = 0 /\ game.max_streak = 1

\* k presses of Right, one after the other
RECURSIVE Rights(_, _)
Rights(p, k) == IF k = 0 THEN p ELSE Rights(SelectNext(p), k - 1)

\* C14: in Active with no outcome, with n candidates and the selection at index i
\* (from 1), Right selects the candidate at (i mod n) + 1 and Left the one at
\* ((i + n - 2) mod n) + 1, wrapping at both ends, and change no other field of the
\* game nor the file; Right always changes the selection, Right then Left
\* restores it, and n Rights restore it.
C14_SelectionCycles ==
    [][(game.game_state = "Active" /\ ~IsSome(game.puzzle.guess_result)) =>
        LET p == game.puzzle
            n == Len(p.suggestions)
            i == Position(p.suggestions, Unwrap(p.selected_suggestion))
        IN  /\ i \in 1..n
            /\ \A key \in {k \in KeyCodes : is_right(k)} :
                 Input(key) =>
                    /\ game' = [game EXCEPT !.puzzle.selected_suggestion =
                                                Some(p.suggestions[(i % n) + 1])]
                    /\ game'.puzzle.selected_suggestion # p.selected_suggestion
                    /\ file' = file
            /\ \A key \in {k \in KeyCodes : is_left(k)} :
                 Input(key) =>
                    /\ game' = [game EXCEPT !.puzzle.selected_suggestion =
                                                Some(p.suggestions[((i + n - 2) % n) + 1])]
                    /\ file' = file
            /\ SelectNext(p) # p
            /\ SelectPrevious(SelectNext(p)) = p
            /\ Rights(p, n) = p
            /\ \A k \in 1..(n - 1) : Rights(p, k) # p]_vars

\* the selection moved to the last candidate of a puzzle not yet answered
C14_Witness ==
    /\ game.game_state = "Active" /\ ~IsSome(game.puzzle.guess_result)
    /\ game.puzzle.selected_suggestion = Some(game.puzzle.suggestions[Len(game.puzzle.suggestions)])
    /\ game.rounds = 1

\* C15: Enter in Result (the outcome is set) replaces the puzzle by a fresh one of
\* the same mode with no outcome, the time budget of the current streak, the whole
\* budget left and the first-delta skip armed, clears the resolved flag and sets
\* Active, leaving score, streak, max_streak, lives, rounds, the store and the file
\* unchanged; Enter in PendingGameOver sets GameOver and changes nothing else.
C15_ConfirmAdvances ==
    [][/\ game.game_state \in {"Result", "PendingGameOver"} =>
             IsSome(game.puzzle.guess_result)
       /\ (game.game_state = "Result" /\
           \E key \in {k \in KeyCodes : is_select(k)} : InputNewPuzzle(key)) =>
            /\ game'.game_state = "Active"
            /\ ~game'.puzzle_resolved
            /\ game'.puzzle.bits = game.bits
            /\ game'.puzzle.guess_result = None
            /\ game'.puzzle.time_total =
                   Max(5000, BaseTimeByWidth(game.bits) - 500 * game.streak)
            /\ game'.puzzle.time_left = game'.puzzle.time_total
            /\ game'.puzzle.skip_first_dt
            /\ game'.puzzle.last_points_awarded = 0
            /\ Counted(game') = Counted(game)
            /\ file' = file
       /\ (game.game_state = "PendingGameOver" /\
           \E key \in {k \in KeyCodes : is_select(k)} : Input(key)) =>
            /\ game' = [game EXCEPT !.game_state = "GameOver"]
            /\ file' = file]_vars

\* the third puzzle of a game, started after two correct answers: 8 s - 2 * 0.5 s
C15_Witness ==
    /\ game.game_state = "Active" /\ game.puzzle.guess_result = None
    /\ game.rounds = 2 /\ game.streak = 2 /\ game.score = 22
    /\ game.puzzle.time_total = 7000 /\ game.puzzle.time_left = 7000
    /\ game.puzzle.skip_first_dt

\* Enter handled in GameOver: the restart
Restart ==
    /\ game.game_state = "GameOver"
    /\ \E key \in {k \in KeyCodes : is_select(k)} : InputNewPuzzle(key)

\* C16: Enter in GameOver sets score, streak, max_streak and rounds to 0 and the
\* state to Active, replaces the puzzle by a fresh one generated at streak 0 (no
\* outcome, the base budget, the skip armed, the resolved flag cleared), clears the
\* new-high-score flag and sets the display baseline to the stored high score of
\* the key of the mode; the store and the file are left as they are.
C16_RestartResets ==
    [][Restart =>
        /\ game'.score = 0 /\ game'.streak = 0 /\ game'.max_streak = 0 /\ game'.rounds = 0
        /\ game'.game_state = "Active"
        /\ ~game'.puzzle_resolved
        /\ game'.puzzle.bits = game.bits
        /\ game'.puzzle.guess_result = None
        /\ game'.puzzle.time_total = BaseTimeByWidth(game.bits)
        /\ game'.puzzle.time_left = game'.puzzle.time_total
        /\ game'.puzzle.skip_first_dt
        /\ ~game'.new_high_score_reached
        /\ game'.prev_high_score_for_display =
               HighScores_get(game.high_scores, high_score_key(game.bits))
        /\ game'.high_scores = game.high_scores
        /\ file' = file]_vars

\* restarted after a game that set the high score 22: the baseline shows it
C16_Witness ==
    /\ game.game_state = "Active" /\ game.rounds = 0 /\ game.score = 0
    /\ ~game.new_high_score_reached
    /\ game.prev_high_score_for_display = 22
    /\ game.puzzle.guess_result = None

C18_ExitFirst ==
    \A key \in {k \in KeyCodes : is_exit(k)} :
        handle_game_input(game, file, key, "ok", << >>, << >>) =
            W([game EXCEPT !.exit_intended = TRUE], file)

\* exit was pressed on the game-over summary
C18_Witness ==
    /\ game.exit_intended /\ game.game_state = "GameOver"
    /\ game.rounds = 3 /\ game.lives = 0

\* the stored high score of the key of the mode of g
Stored(g) == HighScores_get(g.high_scores, high_score_key(g.bits))

\* C19: a step that resolves a round leaves the stored high score of the key of
\* the mode at max(stored before, score). If score exceeds the stored value the
\* store takes the score, the file is written with it and the new-high-score flag
\* is set; if not (an equal score included) the store, the file and the flag stay
\* as they were. The entries of the other keys are never changed.
C19_HighScoreIsMax ==
    [][Resolves =>
        /\ Stored(game') = Max(Stored(game), game'.score)
        /\ \A k \in Range(SaveKeys) :
             k # high_score_key(game.bits) =>
                 HighScores_get(game'.high_scores, k) = HighScores_get(game.high_scores, k)
        /\ game'.score > Stored(game) =>
             /\ Stored(game') = game'.score
             /\ game'.new_high_score_reached
             /\ file'.exists
             /\ FormatLine(high_score_key(game.bits), game'.score) \in Range(file'.lines)
        /\ game'.score <= Stored(game) =>
             /\ game'.high_scores = game.high_scores
             /\ game'.new_high_score_reached = game.new_high_score_reached
             /\ file' = file]_vars

\* the first correct answer scored the 10 points already stored: no new high score
C19_Witness ==
    /\ Resolved(game) /\ game.rounds = 1 /\ game.score = 10
    /\ Stored(game) = 10 /\ ~game.new_high_score_reached
    /\ FormatLine(high_score_key(game.bits), 10) \in Range(file.lines)

\* C20: in every step of a game but the restart, the display baseline changes at
\* most in a resolution that finds score above the stored high score while the flag
\* is down, and is then the value stored before that update; the step that raises
\* the flag is such a resolution; once the flag is up it stays up and the baseline
\* stays as it is, whatever updates of the store follow. While the flag is down
\* the baseline equals the stored value.
C20_BaselineSetOnce ==
    [][~(game.game_state = "GameOver" /\ game'.game_state = "Active") =>
        LET flag == game.new_high_score_reached
            baseline == game.prev_high_score_for_display
            first == /\ ~flag /\ game'.new_high_score_reached
                     /\ Resolves /\ game'.score > Stored(game)
        IN  /\ game'.prev_high_score_for_display # baseline => first
            /\ (~flag /\ game'.new_high_score_reached) => first
            /\ first => game'.prev_high_score_for_display = Stored(game)
            /\ flag => /\ game'.new_high_score_reached
                       /\ game'.prev_high_score_for_display = baseline
            /\ ~flag => baseline = Stored(game)]_vars

\* the store was updated twice in one game, with 22 and with 36 points: the
\* baseline is the 10 points stored before the first update
C20_Witness ==
    /\ game.new_high_score_reached /\ game.score = 36 /\ Stored(game) = 36
    /\ game.prev_high_score_for_display = 10

\* C21 as stated: after a store is saved and the file loaded again, every key
\* that had a nonzero score in the saved store has the same score.
C21_RoundTripEveryKey ==
    scores.at = "reloaded" =>
        \A k \in DOMAIN scores.saved :
            scores.saved[k] # 0 => HighScores_get(scores.store, k) = scores.saved[k]

\* C21 as amended: after a store is saved and the file loaded again, each of the
\* eight keys of the modes (4, 42, 44, 48, 412, 8, 12, 16) that had a nonzero
\* score in the saved store has the same score, and the loaded store has these
\* eight keys and no other: a key that is not a key of a mode, which the store can
\* only have from a file written by someone else, is not saved.
C21_RoundTripModeKeys ==
    scores.at = "reloaded" =>
        /\ \A k \in Range(SaveKeys) :
             HighScores_get(scores.saved, k) # 0 =>
                 HighScores_get(scores.store, k) = HighScores_get(scores.saved, k)
        /\ DOMAIN scores.store = Range(SaveKeys)

\* a store with 412 points for key 412 and 10 for key 4 came back as it was saved
C21_Witness ==
    /\ scores.at = "reloaded"
    /\ HighScores_get(scores.saved, 412) = 412 /\ HighScores_get(scores.saved, 4) = 10
    /\ HighScores_get(scores.store, 412) = 412 /\ HighScores_get(scores.store, 4) = 10

\* the store the lines of input stand for: a line counts if its separator is '='
\* and both its texts stand for a u32; a later line replaces an earlier one
RECURSIVE ExpectedStore(_, _)
ExpectedStore(input, hs) ==
    IF input = << >> THEN hs
    ELSE LET in == Head(input)
         IN  ExpectedStore(Tail(input),
                 IF in.sep = "=" /\ IsSome(in.key.val) /\ IsSome(in.score.val)
                 THEN [k \in DOMAIN hs \cup {Unwrap(in.key.val)} |->
                          IF k = Unwrap(in.key.val) THEN Unwrap(in.score.val) ELSE hs[k]]
                 ELSE hs)

\* C22: load always yields a store: the empty one if the file is missing or cannot
\* be read, otherwise the one holding, for every line of the form
\* <unsigned int>=<unsigned int> (white space around either number and a leading
\* '+' allowed), the number of the last such line with that key; the other lines
\* change nothing. A key absent from the store reads as 0.
C22_LoadSkipsMalformed ==
    scores.at = "loaded" =>
        /\ (~file.exists \/ ~scores.readable) => scores.store = HighScores_empty
        /\ (file.exists /\ scores.readable) =>
               scores.store = ExpectedStore(scores.input, << >>)
        /\ \A k \in Range(SaveKeys) \cup {7} :
               k \notin DOMAIN scores.store => HighScores_get(scores.store, k) = 0

\* a line without '=' before a line " 8 = 07<tab>": only the second was loaded
C22_Witness ==
    /\ scores.at = "loaded" /\ scores.readable /\ Len(scores.input) = 2
    /\ scores.input[1].sep = ":"
    /\ DOMAIN scores.store = {8} /\ scores.store[8] = 7
    /\ HighScores_get(scores.store, 4) = 0

\* C23: whatever the outcome of the save, a frame and a key press leave the game in
\* the state they leave it in when the save succeeds (round counted, score, streak,
\* lives, store in memory, flag, baseline, state after the round); the outcome
\* shows in the file alone: untouched when File::create fails, empty when
\* write_all fails.
C23_SaveFailureIgnored ==
    \A io \in IoOutcomes :
        /\ \A dt \in Deltas :
             LET w == Game_run(game, file, dt, io)
                 ok == Game_run(game, file, dt, "ok")
             IN  /\ w.game = ok.game
                 /\ w.file \in {ok.file, file, [exists |-> TRUE, lines |-> << >>]}
                 /\ (io = "create_failed") => w.file = file
        /\ \A key \in {k \in PressedKeys : ~CreatesPuzzle(k)} :
             LET w == handle_game_input(game, file, key, io, << >>, << >>)
                 ok == handle_game_input(game, file, key, "ok", << >>, << >>)
             IN  /\ w.game = ok.game
                 /\ w.file \in {ok.file, file, [exists |-> TRUE, lines |-> << >>]}
                 /\ (io = "create_failed") => w.file = file

\* a round resolved with a new high score of 10 in memory, raised flag and state
\* Result, while no file was written
C23_Witness ==
    /\ game.game_state = "Result" /\ game.puzzle_resolved /\ game.rounds = 1
    /\ game.new_high_score_reached /\ Stored(game) = 10 /\ game.score = 10
    /\ ~file.exists

\* C24: in the two's complement mode a raw pattern r of 0..15 converts to r - 16
\* when r >= 8 and to r otherwise, which lies in -8..7 and is congruent to r modulo
\* 16, and is displayed as that number in decimal; in every other mode the
\* conversion returns the raw value.
C24_TwosComplement ==
    conv.at = "converted" =>
        /\ (is_twos_complement(conv.bits) /\ conv.raw \in 0..15) =>
              /\ conv.signed = IF conv.raw >= 8 THEN conv.raw - 16 ELSE conv.raw
              /\ conv.signed \in -8..7
              /\ (conv.signed - conv.raw) % 16 = 0
              /\ conv.text = IF conv.signed < 0
                             THEN <<"-">> \o FormatU32(0 - conv.signed)
                             ELSE FormatU32(conv.signed)
        /\ ~is_twos_complement(conv.bits) =>
              /\ conv.signed = conv.raw
              /\ conv.text = FormatU32(conv.raw)

\* the pattern 1001 shown as -7 and the pattern 1000 as -8
C24_Witness ==
    /\ conv.at = "converted" /\ conv.bits = "FourTwosComplement"
    /\ \/ conv.raw = 9 /\ conv.signed = -7 /\ conv.text = <<"-", "7">>
       \/ conv.raw = 8 /\ conv.signed = -8 /\ conv.text = <<"-", "8">>

\* C25: while the widget is not paused, with A the animation duration, P the period
\* and e the time elapsed since start_time, the cycle is e div P; the progress is 1.0
\* when e mod P >= A and the f32 quotient (e mod P) / A, which is below 1.0,
\* otherwise; the progress lies between 0.0 and 1.0; and one period later the cycle
\* is one more and the progress the same.
C25_ProgressAndCycle ==
    (~AtRest(anim) /\ ~anim.paused) =>
        LET A == animation_duration(anim)
            P == total_cycle_duration(anim)
            e == now - anim.start_time
            pc == get_animation_progress_and_cycle(anim, now)
            later == get_animation_progress_and_cycle(anim, now + P)
        IN  /\ e >= 0
            /\ pc.cycle * P <= e /\ e < (pc.cycle + 1) * P
            /\ (e % P >= A) => pc.progress = F32One
            /\ (e % P < A) =>
                  /\ pc.progress = F32Div(e % P, A)
                  /\ pc.progress # F32One
                  /\ F32ToU64(F32Mul(pc.progress, F32FromInt(A))) \in {e % P, (e % P) - 1}
            /\ F32Le(F32FromInt(0), pc.progress) /\ F32Le(pc.progress, F32One)
            /\ later.cycle = pc.cycle + 1
            /\ later.progress = pc.progress

\* the title in the pause at the end of its second cycle and a widget without pause
\* in the middle of a later cycle
C25_Witness ==
    /\ ~AtRest(anim) /\ ~anim.paused
    /\ \/ /\ anim.pause_at_end = 2000 /\ now - anim.start_time = 7000
          /\ get_animation_progress_and_cycle(anim, now) = [progress |-> F32One, cycle |-> 1]
       \/ /\ anim.pause_at_end = 0 /\ now - anim.start_time = 1255
          /\ get_animation_progress_and_cycle(anim, now) =
                 [progress |-> F32Div(15, 20), cycle |-> 62]

\* C26: while the widget is paused the pair (progress, cycle) it reports is the
\* pair frozen by pause however much time elapses, and the pair it reports
\* immediately after unpause is that same pair: the animation neither moves
\* backwards nor skips ahead.
C26_PauseSeamless ==
    (~AtRest(anim) /\ anim.paused) =>
        LET frozen == [progress |-> anim.paused_progress, cycle |-> anim.paused_cycle]
        IN  /\ \A d \in AnimSteps : get_animation_progress_and_cycle(anim, now + d) = frozen
            /\ get_animation_progress_and_cycle(unpause(anim, now), now) = frozen

\* C27: a cell of the title that is not a space shows its original char or its
\* binary digit ('0' or '1'); within an even cycle it goes from the original to the
\* digit and within an odd cycle from the digit to the original, never the other
\* way; what it shows at the end of a cycle (progress 1.0) is what it shows at the
\* start of the next cycle (progress 0.0); at the start of cycle 0 it shows the
\* original and at the end of every even cycle the digit.
C27_TitleLoops ==
    cell.at = "rendered" =>
        LET digit == binary_char(cell.usize, cell.x, cell.y)
            shown(progress, cycle) ==
                char_fn(cell.usize, cell.x, cell.y, progress, cycle, cell.original)
        IN  /\ cell.original # " "
            /\ digit \in {"0", "1"}
            /\ cell.display_char \in {cell.original, digit}
            /\ \A later \in TitleProgress :
                 F32Le(cell.progress, later) =>
                     /\ (cell.cycle % 2 = 0 /\ cell.display_char = digit) =>
                            shown(later, cell.cycle) = digit
                     /\ (cell.cycle % 2 = 1 /\ cell.display_char = cell.original) =>
                            shown(later, cell.cycle) = cell.original
            /\ cell.progress = F32One =>
                 cell.display_char = shown(F32FromInt(0), cell.cycle + 1)
            /\ (cell.cycle = 0 /\ cell.progress = F32FromInt(0)) =>
                 cell.display_char = cell.original
            /\ (cell.cycle % 2 = 0 /\ cell.progress = F32One) => cell.display_char = digit
            /\ (cell.cycle % 2 = 1 /\ cell.progress = F32One) =>
                 cell.display_char = cell.original

\* the '*' at the left of the second line shown as a digit at the end of cycle 2
C27_Witness ==
    /\ cell.at = "rendered" /\ cell.x = 0 /\ cell.y = 1 /\ cell.original = "*"
    /\ cell.cycle = 2 /\ cell.progress = F32One
    /\ cell.display_char \in {"0", "1"}

\* C28: when run_app waits for input it has rendered the menu or the game, and it
\* polls, with the timeout min(dt, 33 ms), exactly if a game is in state Active (its
\* puzzle unanswered, the timer running) or the animation of the menu is not
\* paused; otherwise (Result, PendingGameOver, GameOver, menu with the animation
\* paused) it blocks on the next event.
C28_BoundedPolling ==
    app.pc = "input" =>
        LET timed == \/ app.state = "Playing" /\ game.game_state = "Active"
                     \/ app.state = "Start" /\ ~app.menu.animation.paused
        IN  /\ app.state \in {"Start", "Playing"}
            /\ app.drawn = IF app.state = "Start" THEN "menu" ELSE "game"
            /\ timed => app.wait = [mode |-> "poll",
                                    timeout |-> IF app.dt < 33 THEN app.dt ELSE 33]
            /\ ~timed => app.wait = [mode |-> "block"]
            /\ (app.state = "Playing" /\ game.game_state = "Active") =>
                   ~IsSome(game.puzzle.guess_result)
            /\ (app.state = "Playing" /\ game.game_state # "Active") =>
                   game.game_state \in {"Result", "PendingGameOver", "GameOver"}

\* a puzzle started after a read that blocked for 4.5 s: the wait polls for 33 ms
C28_Witness ==
    /\ app.pc = "input" /\ app.state = "Playing" /\ game.game_state = "Active"
    /\ game.rounds = 1 /\ app.dt = 4500
    /\ app.wait = [mode |-> "poll", timeout |-> 33]

\* C29: wherever run_app reads an event (menu or game, in every state of the
\* game), a press of Ctrl+C makes the AppState Exit through the global arm, no
\* handler of the state having run and the file left as it is; and once the
\* AppState is Exit the only step of the loop is its end: no game is advanced and
\* nothing is drawn.
C29_CtrlCExits ==
    /\ [](app.pc = "input" =>
            LET ctrl_c == [kind |-> "Press", code |-> "c", modifiers |-> "CONTROL"]
                r == handle_crossterm_events(app, game, file, ctrl_c, now, << >>, << >>)
            IN  /\ r.state = "Exit"
                /\ r.handler = "global exit"
                /\ r.file = file)
    /\ []((~AtRest(app) /\ app.event # NoEvent /\ app.event.kind = "Press"
              /\ IsGlobalExit(app.event)) =>
            /\ app.state = "Exit"
            /\ app.handler = "global exit"
            /\ app.pc \in {"top", "done"})
    /\ [][(~AtRest(app) /\ app.state = "Exit") =>
            /\ app' = [app EXCEPT !.pc = "done"]
            /\ game' = game
            /\ file' = file]_vars

\* the loop has ended after Ctrl+C was pressed while a game was on the screen, in
\* the fourth iteration or later
C29_Witness ==
    /\ app.pc = "done" /\ app.state = "Exit" /\ app.drawn = "game"
    /\ app.event = [kind |-> "Press", code |-> "c", modifiers |-> "CONTROL"]
    /\ app.handler = "global exit"
    /\ app.frames >= 4

\* C30: a game whose exit is intended is found only at the head of the loop, the
\* key handled last being an exit key; the next step of the loop is the advance
\* that replaces Playing by the menu created from the preferences and drops the
\* game, at the head of the loop again: nothing is drawn and no input is read in
\* between, and the AppState is not Exit.
C30_ExitIntentLeavesGame ==
    /\ []((~AtRest(app) /\ app.state = "Playing" /\ game.exit_intended) =>
            /\ app.pc = "top"
            /\ app.handler = "handle_input"
            /\ is_exit(app.event.code))
    /\ [][(~AtRest(app) /\ app.state = "Playing" /\ game.exit_intended) =>
            /\ app'.state = "Start"
            /\ app'.menu = StartMenuState_new(app.prefs, now)
            /\ app'.prefs = app.prefs
            /\ game' = NoGame
            /\ app'.pc = "top"
            /\ app'.drawn = app.drawn
            /\ app'.event = NoEvent
            /\ app'.frames = app.frames + 1]_vars

\* back in the menu, on the entry chosen before the game, nothing drawn since the
\* game was
C30_Witness ==
    /\ app.state = "Start" /\ app.pc = "top" /\ app.drawn = "game" /\ game = NoGame
    /\ app.event = NoEvent
    /\ app.prefs.last_selected_index = 3
    /\ app.menu = StartMenuState_new(app.prefs, now)

\* C31: the index and the number mode of the menu when a game is started are
\* kept for as long as the game is played and are those of the menu that the
\* return from the game shows, for every index and mode and at every start.
C31_MenuRestored ==
    [][/\ (app.state = "Start" /\ app'.state = "Playing")
            => /\ app'.prefs.last_selected_index = selected_index(app.menu)
               /\ app'.prefs.last_number_mode = app.menu.number_mode
       /\ (app.state = "Playing" /\ app'.state = "Playing")
            => app'.prefs = app.prefs
       /\ (app.state = "Playing" /\ app'.state = "Start")
            => /\ selected_index(app'.menu) = app.prefs.last_selected_index
               /\ app'.menu.number_mode = app.prefs.last_number_mode
               /\ app'.prefs = app.prefs]_vars

\* the menu shown again after a second game, begun at another index and in the
\* signed mode
C31_Witness ==
    /\ app.state = "Start" /\ app.pc = "top" /\ app.drawn = "game"
    /\ app.frames >= 8
    /\ selected_index(app.menu) = 5 /\ app.menu.number_mode = "Signed"
    /\ app.prefs = [last_selected_index |-> 5, last_number_mode |-> "Signed"]

\* C32: over every interleaving of ticks and keys a puzzle is resolved exactly
\* once. The step that sets its outcome (Enter, skip or the timer) resolves it:
\* rounds grows by exactly 1 and the score, streak and lives change as one
\* round of that outcome changes them. From then until the puzzle is replaced
\* no tick and no key changes rounds, score, streak, max_streak, lives or the
\* store.
C32_ResolvedExactlyOnce ==
    [][/\ (~IsSome(game.puzzle.guess_result) /\ IsSome(game'.puzzle.guess_result)) =>
            /\ game'.puzzle_resolved
            /\ game'.rounds = game.rounds + 1
            /\ IF Outcome = "Correct"
               THEN /\ game'.streak = game.streak + 1
                    /\ game'.score = game.score + 10 + 2 * game.streak
                    /\ game'.lives \in {game.lives, game.lives + 1}
               ELSE /\ game'.streak = 0
                    /\ game'.score = game.score
                    /\ game'.lives = Max(game.lives - 1, 0)
       /\ (IsSome(game.puzzle.guess_result) /\ IsSome(game'.puzzle.guess_result)) =>
            /\ game'.puzzle.guess_result = game.puzzle.guess_result
            /\ game'.puzzle_resolved
            /\ Counted(game') = Counted(game)]_vars

\* the second puzzle was skipped with its time running and a tick has run since
\* (its snapshot shows the Result state): two rounds, two lives lost
C32_Witness ==
    /\ game.puzzle.guess_result = Some("Timeout") /\ game.puzzle.time_left > 0
    /\ game.puzzle_resolved
    /\ IsSome(game.puzzle.stats_snapshot)
    /\ Unwrap(game.puzzle.stats_snapshot).game_state = "Result"
    /\ game.rounds = 2 /\ game.lives = 1 /\ game.max_lives = 3 /\ game.score = 0

\* the game is played, its timer runs and no key arrives any more
IdleInActive ==
    app.state = "Playing" /\ game.game_state = "Active" /\ app.frames > IdleFrames

\* C33: while a game is Active the driver waits for input by polling, never by
\* a blocking read; and once no key arrives any more, an Active game comes to
\* the outcome Timeout with no time left and to the state Result or
\* PendingGameOver.
C33_IdleTimesOut ==
    /\ []((app.state = "Playing" /\ game.game_state = "Active" /\ app.pc = "input")
            => (app.wait.mode = "poll" /\ app.wait.timeout <= target_frame_duration))
    /\ IdleInActive ~>
          /\ app.state = "Playing"
          /\ game.puzzle.guess_result = Some("Timeout")
          /\ game.puzzle.time_left = 0
          /\ game.game_state \in {"Result", "PendingGameOver"}

\* the third puzzle, left alone with one life, has timed out: the driver has
\* come to the blocking read of PendingGameOver
C33_Witness ==
    /\ app.state = "Playing" /\ app.frames > IdleFrames
    /\ app.pc = "input" /\ app.wait.mode = "block"
    /\ game.game_state = "PendingGameOver"
    /\ game.puzzle.guess_result = Some("Timeout") /\ game.puzzle.time_left = 0
    /\ game.rounds = 3 /\ game.lives = 0

\* C34: at the head of every iteration of the loop in a game, whatever delta
\* has been measured: a puzzle that has not been run since it was created (at
\* the start from the menu, at the confirm of a result, at a restart) still has
\* its whole budget and no outcome, and the run leaves it so; and a delta longer
\* than a frame, measured across a blocking read, is subtracted from no
\* puzzle's time_left and sets no outcome.
C34_WaitNotSubtracted ==
    (app.state = "Playing" /\ app.pc = "top") =>
        LET dt == now - app.last_frame_time
            after == Game_run(game, file, dt, "ok").game.puzzle
        IN  /\ game.puzzle.skip_first_dt =>
                /\ game.puzzle.time_left = game.puzzle.time_total
                /\ game.puzzle.guess_result = None
                /\ after.time_left = game.puzzle.time_total
                /\ after.guess_result = None
            /\ dt > target_frame_duration =>
                /\ after.time_left = game.puzzle.time_left
                /\ after.guess_result = game.puzzle.guess_result

\* the second puzzle, created by an Enter that came 4.5 s into the blocking
\* read of Result, after its first run: the budget is whole
C34_Witness ==
    /\ app.state = "Playing" /\ app.pc = "draw" /\ app.dt >= 4500
    /\ game.game_state = "Active" /\ game.rounds = 1
    /\ ~game.puzzle.skip_first_dt
    /\ game.puzzle.time_left = game.puzzle.time_total
    /\ game.puzzle.guess_result = None

\* the high score of the key of the mode of g that a load of file f would find
Persisted(g, f) == HighScores_get(HighScores_load(f, TRUE), high_score_key(g.bits))

\* C35: with every save succeeding, after the creation of the game and after
\* every tick and key the high score of the key of the mode that the file holds
\* is the one the store in memory holds: the store comes from the load at the
\* creation, and a new high score is written by the step that sets it. The key
\* of every mode is one of those a save writes.
C35_PersistedIsStored ==
    /\ Persisted(game, file) = Stored(game)
    /\ \A bits \in Bits : high_score_key(bits) \in Range(SaveKeys)

\* the 10 points found in the file at the creation were beaten by a second
\* correct answer: 22 in memory and in the file
C35_Witness ==
    /\ game.new_high_score_reached /\ game.prev_high_score_for_display = 10
    /\ game.score = 22 /\ Stored(game) = 22 /\ Persisted(game, file) = 22

\* C36: after the creation and after every tick and key, the state is Active
\* exactly when the puzzle has no outcome and exactly when the resolved flag is
\* false. So no key finds an outcome in the Active state, and the run of a tick
\* finalizes only a puzzle that was Active, without outcome, before it.
C36_ActiveIffUnresolved ==
    /\ (game.game_state = "Active") <=> ~IsSome(game.puzzle.guess_result)
    /\ (game.game_state = "Active") <=> ~game.puzzle_resolved
    /\ \A dt \in Deltas :
         RunFinalizes([game EXCEPT !.puzzle = Puzzle_run(@, dt)]) =>
             /\ game.game_state = "Active"
             /\ ~IsSome(game.puzzle.guess_result)
             /\ ~game.puzzle_resolved

\* the third puzzle, running: Active, no outcome, not resolved
C36_Witness ==
    /\ game.game_state = "Active" /\ game.rounds = 2
    /\ game.puzzle.guess_result = None /\ ~game.puzzle_resolved
    /\ ~game.puzzle.skip_first_dt /\ game.puzzle.time_left < game.puzzle.time_total

\* C37: after the creation and after every tick and key the puzzle has
\* suggestions, one of them is selected, and the selection is one of the
\* suggestions. So Enter in the Active state resolves the round, and Left and
\* Right move from the place of the selection to a selection that is again one
\* of the suggestions.
C37_SelectionAmongSuggestions ==
    LET p == game.puzzle
    IN  /\ Len(p.suggestions) > 0
        /\ IsSome(p.selected_suggestion)
        /\ Unwrap(p.selected_suggestion) \in Range(p.suggestions)
        /\ game.game_state = "Active" =>
             /\ \A key \in {k \in PressedKeys : is_select(k)} :
                  Resolved(handle_no_result_yet(game, file, key, "ok").game)
             /\ \A key \in {k \in PressedKeys : is_left(k) \/ is_right(k)} :
                  LET q == handle_no_result_yet(game, file, key, "ok").game.puzzle
                  IN  /\ IsSome(q.selected_suggestion)
                      /\ Unwrap(q.selected_suggestion) \in Range(q.suggestions)
                      /\ Len(q.suggestions) > 1 => q.selected_suggestion # p.selected_suggestion

\* on the second puzzle the selection was moved off the first suggestion
C37_Witness ==
    /\ game.game_state = "Active" /\ game.rounds = 1
    /\ game.puzzle.selected_suggestion # Some(game.puzzle.suggestions[1])
    /\ Unwrap(game.puzzle.selected_suggestion) \in Range(game.puzzle.suggestions)

\* C38: in a game created with max_lives >= 1, lives >= 1 in the states Active
\* and Result and lives = 0 in the states PendingGameOver and GameOver; a round
\* resolved as Correct leads to Result, and a round that takes the last life
\* leads to PendingGameOver.
C38_LivesMatchState ==
    /\ [](game.max_lives >= 1 =>
            /\ game.game_state \in {"Active", "Result"} => game.lives >= 1
            /\ game.game_state \in {"PendingGameOver", "GameOver"} => game.lives = 0)
    /\ [][(game.max_lives >= 1 /\ Resolves) =>
            /\ Outcome = "Correct" => game'.game_state = "Result"
            /\ game'.lives = 0 => game'.game_state = "PendingGameOver"
            /\ game'.lives >= 1 => game'.game_state = "Result"]_vars

\* a game of one life: a correct answer, then a miss that ended it
C38_Witness ==
    /\ game.max_lives = 1 /\ game.lives = 0 /\ game.game_state = "PendingGameOver"
    /\ game.rounds = 2 /\ game.score = 10

\* the keys a store of a session may hold
StoreKeys(g) == DOMAIN g.high_scores \cup Range(SaveKeys)

\* C39: the high score that the store in memory holds for the key of the mode is
\* at least the score of the game, after the creation and after every tick and
\* key; and no tick and no key lowers the high score that the store holds for
\* any key.
C39_StoredDominatesScore ==
    /\ [](Stored(game) >= game.score)
    /\ [][\A k \in StoreKeys(game) \cup StoreKeys(game') :
            HighScores_get(game'.high_scores, k) >= HighScores_get(game.high_scores, k)]_vars

\* a restarted game scores its first 10 points under the 22 stored by the game
\* before it
C39_Witness ==
    /\ game.score = 10 /\ game.rounds = 1 /\ Stored(game) = 22
    /\ ~game.new_high_score_reached

\* what a resolved or finished game keeps
Kept(g) ==
    <<g.score, g.streak, g.max_streak, g.lives, g.rounds, g.game_state,
      g.puzzle.guess_result, g.puzzle.selected_suggestion, g.puzzle.time_left,
      g.high_scores>>

\* C40: in the states Result, PendingGameOver and GameOver every tick, and every
\* key that is neither Enter nor an exit key (Left, Right and the skip key
\* included), leaves the score, streak, max_streak, lives, rounds, the state, the
\* outcome, the selection, time_left, the store and the file unchanged.
C40_ResolvedIsInert ==
    game.game_state \in {"Result", "PendingGameOver", "GameOver"} =>
        /\ \A dt \in Deltas :
             LET w == Game_run(game, file, dt, "ok")
             IN  Kept(w.game) = Kept(game) /\ w.file = file
        /\ \A key \in {k \in PressedKeys : ~is_select(k) /\ ~is_exit(k)} :
             LET w == handle_game_input(game, file, key, "ok", << >>, << >>)
             IN  Kept(w.game) = Kept(game) /\ w.file = file

\* the last life was lost to a wrong answer with time left, and a tick has run
\* since: its snapshot shows PendingGameOver
C40_Witness ==
    /\ game.game_state = "PendingGameOver" /\ game.lives = 0 /\ game.max_lives = 3
    /\ game.puzzle.guess_result = Some("Incorrect") /\ game.puzzle.time_left > 0
    /\ IsSome(game.puzzle.stats_snapshot)
    /\ Unwrap(game.puzzle.stats_snapshot).game_state = "PendingGameOver"

====
